---- MODULE Spec2Model ----
\* Task discovery-and-caching engine of vscode-taskexplorer:
\* the Ant, Gradle and Script detectors with their module-level caches,
\* the tree provider's refresh path and the file/configuration watchers.
EXTENDS Integers, Sequences, FiniteSets, TLC

\* ------------------------------------------------------------------
\* Bounds of the model
\* ------------------------------------------------------------------
MaxPending == 2
MaxPendingExt == 1
MaxFsOps == 1
MaxConfigChanges == 1

\* ------------------------------------------------------------------
\* Text helpers (JavaScript string semantics on sequences of characters,
\* indices are 0-based as in the source)
\* ------------------------------------------------------------------
WhiteSpace == {" ", "\t", "\n", "\r"}

RECURSIVE indexOfFrom(_, _, _)
indexOfFrom(s, c, from) ==
    IF from >= Len(s) THEN -1
    ELSE IF s[from + 1] = c THEN from
    ELSE indexOfFrom(s, c, from + 1)

indexOf(s, c, from) == indexOfFrom(s, c, IF from < 0 THEN 0 ELSE from)

Clamp(i, n) == IF i < 0 THEN 0 ELSE IF i > n THEN n ELSE i

substring(s, a, b) ==
    LET a1 == Clamp(a, Len(s))
        b1 == Clamp(b, Len(s))
        lo == IF a1 <= b1 THEN a1 ELSE b1
        hi == IF a1 <= b1 THEN b1 ELSE a1
    IN  SubSeq(s, lo + 1, hi)

RECURSIVE trimLeft(_)
trimLeft(s) ==
    IF s # <<>> /\ Head(s) \in WhiteSpace THEN trimLeft(Tail(s)) ELSE s

RECURSIVE trimRight(_)
trimRight(s) ==
    IF s # <<>> /\ s[Len(s)] \in WhiteSpace
    THEN trimRight(SubSeq(s, 1, Len(s) - 1)) ELSE s

trim(s) == trimRight(trimLeft(s))

LowerOf(c) ==
    CASE c = "T" -> "t" [] c = "A" -> "a" [] c = "S" -> "s" [] c = "K" -> "k"
      [] c = "B" -> "b" [] c = "U" -> "u" [] c = "I" -> "i" [] c = "L" -> "l"
      [] c = "D" -> "d" [] c = "X" -> "x" [] c = "M" -> "m"
      [] OTHER -> c

toLowerCase(s) == [i \in 1..Len(s) |-> LowerOf(s[i])]

startsWith(s, p) == Len(s) >= Len(p) /\ SubSeq(s, 1, Len(p)) = p

\* ------------------------------------------------------------------
\* Files of the workspace.  A file is named by its path relative to the
\* single workspace folder; each detector has its own glob.
\* ------------------------------------------------------------------
Detectors == {"ant", "gradle", "script"}

AntFiles == <<"build.xml", "sub/build.xml">>
GradleFiles == <<"app/build.gradle", "lib/build.gradle">>
ScriptFiles == <<"run.sh", "go.bat">>

FileList(d) ==
    CASE d = "ant" -> AntFiles
      [] d = "gradle" -> GradleFiles
      [] d = "script" -> ScriptFiles

Range(s) == {s[i] : i \in 1..Len(s)}

FilesOf(d) == Range(FileList(d))

AllFiles == FilesOf("ant") \cup FilesOf("gradle") \cup FilesOf("script")

DetectorOfFile(f) == CHOOSE d \in Detectors : f \in FilesOf(d)

basename(f) ==
    CASE f = "build.xml" -> "build.xml"
      [] f = "sub/build.xml" -> "build.xml"
      [] f = "Build.xml" -> "Build.xml"
      [] f = "ant/custom.xml" -> "custom.xml"
      [] f = "app/build.gradle" -> "build.gradle"
      [] f = "lib/build.gradle" -> "build.gradle"
      [] f = "run.sh" -> "run.sh"
      [] f = "go.bat" -> "go.bat"

extname(f) ==
    CASE f = "run.sh" -> "sh"
      [] f = "go.bat" -> "bat"
      [] f \in FilesOf("ant") -> "xml"
      [] f \in FilesOf("gradle") -> "gradle"

getRelativePath(f) ==
    CASE f = "sub/build.xml" -> "sub/"
      [] f = "ant/custom.xml" -> "ant/"
      [] f = "app/build.gradle" -> "app/"
      [] f = "lib/build.gradle" -> "lib/"
      [] OTHER -> ""

\* ------------------------------------------------------------------
\* File contents
\* ------------------------------------------------------------------
Absent == [exists |-> FALSE]

\* An Ant file as xml2js sees it: parse error or the object tree.
AntXml(ok, root, attrs, dflt, hasTargets, targets) ==
    [exists |-> TRUE, kind |-> "xml", wellFormed |-> ok, root |-> root,
     hasAttrs |-> attrs, default |-> dflt,
     hasTargets |-> hasTargets, targets |-> targets]

Tgt(n) == [hasName |-> TRUE, name |-> n]

AntGood == AntXml(TRUE, "project", TRUE, "build", TRUE, <<Tgt("build"), Tgt("clean")>>)
AntUnparsable == AntXml(FALSE, "", FALSE, "", FALSE, <<>>)
AntNoAttrs == AntXml(TRUE, "project", FALSE, "", TRUE, <<Tgt("build")>>)

AntContents == {AntGood, AntUnparsable, AntNoAttrs}

Text(chars) == [exists |-> TRUE, kind |-> "text", chars |-> chars]

GradleTwo == Text(<<"T","a","s","k"," ","b","{","\n","x","\n","t","a","s","k"," ","c","(","\n">>)
GradleNone == Text(<<"t","a","s","k"," ","b","a","r","\n","{","\n">>)

GradleContents == {GradleTwo, GradleNone}

ScriptArgs == Text(<<"e","c","h","o"," ","%","1">>)
ScriptNoArgs == Text(<<"e","c","h","o"," ","%","0">>)

ScriptContents == {ScriptArgs, ScriptNoArgs}

\* the contents each file takes in the model; only a batch file's text is
\* ever read by the Script detector
ContentsOfFile(f) ==
    CASE f = "build.xml" -> {AntGood, AntUnparsable}
      [] f = "sub/build.xml" -> {AntGood, AntNoAttrs}
      [] f = "app/build.gradle" -> GradleContents
      [] f = "lib/build.gradle" -> {GradleTwo}
      [] f = "go.bat" -> ScriptContents
      [] OTHER -> {ScriptNoArgs}

\* ------------------------------------------------------------------
\* Host and util collaborators
\* ------------------------------------------------------------------
win32 == FALSE

NoUri == "<none>"

\* exclusion patterns of the model: a literal path (only util.existsInArray
\* sees it as that very string) and a glob that matches the first file
ExcludeGlob == "**/first*"

ExcludePatterns(d) == {FileList(d)[1], ExcludeGlob}

GlobMatches(p, f) ==
    \/ p = f
    \/ p = ExcludeGlob /\ \E d \in Detectors : f = FileList(d)[1]

isExcluded(cfg, f) == \E p \in cfg.exclude : GlobMatches(p, f)

existsInArray(arr, item) == item \in arr

pathExists(files, f) == f \in DOMAIN files /\ files[f] # Absent

\* util.readFile / util.readFileSync: the text, or an I/O error
readFile(files, f) ==
    IF pathExists(files, f) THEN [raised |-> FALSE, contents |-> files[f]]
    ELSE [raised |-> TRUE, contents |-> Absent]

\* StringMap: an insertion-ordered list of key/value pairs
MapHas(m, k) == \E i \in 1..Len(m) : m[i].key = k

MapPut(m, k, v) ==
    IF MapHas(m, k)
    THEN [i \in 1..Len(m) |-> IF m[i].key = k THEN [key |-> k, value |-> v] ELSE m[i]]
    ELSE Append(m, [key |-> k, value |-> v])

Task(type, source, name, uri, script, cmd, args, requiresArgs) ==
    [type |-> type, source |-> source, name |-> name, uri |-> uri,
     script |-> script, fileName |-> basename(uri), path |-> getRelativePath(uri),
     cmd |-> cmd, args |-> args, requiresArgs |-> requiresArgs]

\* ------------------------------------------------------------------
\* Gradle detector: findTargets / readGradlefile / createGradleTask
\* ------------------------------------------------------------------
TaskToken == <<"t", "a", "s", "k", " ">>

\* a plausible slip: a line without delimiter names the task up to its end
findTargetsLineToEnd(line, scripts) ==
    IF Len(line) > 0 /\ startsWith(trimLeft(toLowerCase(line)), TaskToken)
    THEN LET p == indexOf(line, "(", 5)
             q == IF p = -1 THEN indexOf(line, "{", 5) ELSE p
             tgtName == trim(substring(line, 5, IF q = -1 THEN Len(line) ELSE q))
         IN  IF tgtName # <<>> THEN MapPut(scripts, tgtName, <<>>) ELSE scripts
    ELSE scripts

findTargetsLine(line, scripts) ==
    IF Len(line) > 0 /\ startsWith(trimLeft(toLowerCase(line)), TaskToken)
    THEN LET idx1 == indexOf(trimLeft(line), " ", 0)
         IN  IF idx1 # -1
             THEN LET i1 == idx1 + 1
                      p  == indexOf(line, "(", i1)
                      idx2 == IF p = -1 THEN indexOf(line, "{", i1) ELSE p
                  IN  IF idx2 # -1
                      THEN LET tgtName == trim(substring(line, i1, idx2))
                           IN  IF tgtName # <<>> THEN MapPut(scripts, tgtName, <<>>)
                               ELSE scripts
                      ELSE scripts
             ELSE scripts
    ELSE scripts

\* a plausible slip: the scan resumes at the line feed, not after it
findTargetsStepAtEol(contents, st) ==
    [idx |-> st.eol, eol |-> indexOf(contents, "\n", st.eol),
     scripts |-> findTargetsLine(trim(substring(contents, st.idx, st.eol)), st.scripts)]

\* one iteration of the while loop: the line is examined, then
\* `idx = eol + 1; eol = contents.indexOf("\n", idx)`
findTargetsStep(contents, st) ==
    [idx |-> st.eol + 1, eol |-> indexOf(contents, "\n", st.eol + 1),
     scripts |-> findTargetsLine(trim(substring(contents, st.idx, st.eol)), st.scripts)]

RECURSIVE findTargetsLoop(_, _, _, _)
findTargetsLoop(contents, idx, eol, scripts) ==
    IF eol = -1 THEN scripts
    ELSE LET st == findTargetsStep(contents,
                                   [idx |-> idx, eol |-> eol, scripts |-> scripts])
         IN  findTargetsLoop(contents, st.idx, st.eol, st.scripts)

findTargets(files, f) ==
    LET rd == readFile(files, f)
    IN  IF rd.raised THEN [raised |-> TRUE, scripts |-> <<>>]
        ELSE [raised |-> FALSE,
              scripts |-> findTargetsLoop(rd.contents.chars, 0,
                                          indexOf(rd.contents.chars, "\n", 0), <<>>)]

getCommandGradle(cfg) ==
    IF cfg.pathToGradle # "" THEN cfg.pathToGradle
    ELSE IF win32 THEN "gradle.bat" ELSE "gradle"

createGradleTask(cfg, target, uri) ==
    Task("gradle", "gradle", target, uri, target, getCommandGradle(cfg), <<target>>, FALSE)

readGradlefile(cfg, files, uri) ==
    LET r == findTargets(files, uri)
    IN  IF r.raised THEN [raised |-> TRUE, tasks |-> <<>>]
        ELSE [raised |-> FALSE,
              tasks |-> [i \in 1..Len(r.scripts) |->
                           createGradleTask(cfg, r.scripts[i].key, uri)]]

\* ------------------------------------------------------------------
\* Ant detector: findAllAntScripts / readAntfile / createAntTask
\* ------------------------------------------------------------------
DefaultSuffix == <<" - Default">>

RECURSIVE antTargetsLoop(_, _, _, _)
antTargetsLoop(targets, i, defaultTask, scripts) ==
    IF i > Len(targets) THEN scripts
    ELSE LET t == targets[i]
             k == IF defaultTask = t.name THEN <<t.name>> \o DefaultSuffix ELSE <<t.name>>
         IN  antTargetsLoop(targets, i + 1, defaultTask,
                            IF t.hasName THEN MapPut(scripts, k, t.name) ELSE scripts)

\* a plausible slip: the default attribute is never looked at
findAllAntScriptsPlain(buffer) ==
    IF ~buffer.wellFormed \/ buffer.root # "project" \/ ~buffer.hasTargets
    THEN [raised |-> FALSE, scripts |-> <<>>]
    ELSE [raised |-> ~buffer.hasAttrs,
          scripts |-> IF buffer.hasAttrs
                      THEN antTargetsLoop(buffer.targets, 1, "", <<>>) ELSE <<>>]

findAllAntScripts(buffer) ==
    IF ~buffer.wellFormed \/ buffer.root # "project"
    THEN [raised |-> FALSE, scripts |-> <<>>]
    ELSE IF ~buffer.hasTargets
    THEN [raised |-> FALSE, scripts |-> <<>>]
    ELSE IF ~buffer.hasAttrs
    THEN [raised |-> TRUE, scripts |-> <<>>]
    ELSE [raised |-> FALSE,
          scripts |-> antTargetsLoop(buffer.targets, 1, buffer.default, <<>>)]

getCommandAnt(cfg) ==
    IF cfg.pathToAnt # "" THEN cfg.pathToAnt
    ELSE IF win32 THEN "ant.bat" ELSE "ant"

\* String.prototype.toLowerCase on the file names of the model
lowerCaseName(n) == IF n = "Build.xml" THEN "build.xml" ELSE n

\* a plausible slip: the build file is never named on the command line
createAntTaskNoFile(cfg, target, cmdName, uri) ==
    Task("ant", "ant", cmdName, uri, target, getCommandAnt(cfg), <<target>>, FALSE)

createAntTask(cfg, target, cmdName, uri) ==
    LET args0 == IF win32 /\ cfg.enableAnsiconForAnt
                 THEN <<"-logger", "org.apache.tools.ant.listener.AnsiColorLogger", target>>
                 ELSE <<target>>
        args  == IF lowerCaseName(basename(uri)) # "build.xml"
                 THEN args0 \o <<"-f", basename(uri)>> ELSE args0
    IN  Task("ant", "ant", cmdName, uri, target, getCommandAnt(cfg), args, FALSE)

readAntfile(cfg, files, uri) ==
    LET rd == readFile(files, uri)
        r  == findAllAntScripts(rd.contents)
    IN  IF rd.raised \/ r.raised THEN [raised |-> TRUE, tasks |-> <<>>]
        ELSE [raised |-> FALSE,
              tasks |-> [i \in 1..Len(r.scripts) |->
                           createAntTask(cfg, r.scripts[i].value, r.scripts[i].key, uri)]]

\* ------------------------------------------------------------------
\* Script detector: scriptTable / createScriptTask
\* ------------------------------------------------------------------
scriptTable(ext) ==
    CASE ext = "sh"  -> [exec |-> "", type |-> "bash", args |-> <<>>]
      [] ext = "bat" -> [exec |-> "cmd.exe", type |-> "batch", args |-> <<"/c">>]

Digits19 == {"1", "2", "3", "4", "5", "6", "7", "8", "9"}

\* a plausible slip: the pattern %[0-9], which %0 (the script's own name) matches
requiresArgsTestAnyDigit(chars) ==
    \E i \in 1..(Len(chars) - 1) : chars[i] = "%" /\ chars[i + 1] \in Digits19 \cup {"0"}

requiresArgsTest(chars) ==
    \E i \in 1..(Len(chars) - 1) : chars[i] = "%" /\ chars[i + 1] \in Digits19

RECURSIVE cmdLineArgs(_, _)
cmdLineArgs(line, args) ==
    IF args = <<>> THEN line
    ELSE cmdLineArgs(line \o <<" ", Head(args)>>, Tail(args))

createScriptTask(files, scriptDef, uri) ==
    LET rd   == IF scriptDef.type = "batch" THEN readFile(files, uri)
                ELSE [raised |-> FALSE, contents |-> Absent]
        sep  == IF win32 THEN "\\" ELSE "/"
        line == cmdLineArgs(<<scriptDef.exec>>, scriptDef.args)
                   \o <<" ", ".", sep, basename(uri)>>
    IN  IF rd.raised THEN [raised |-> TRUE, tasks |-> <<>>]
        ELSE [raised |-> FALSE,
              tasks |-> <<Task("script", scriptDef.type, <<basename(uri)>>, uri, <<>>,
                               line, <<>>,
                               scriptDef.type = "batch"
                                  /\ requiresArgsTest(rd.contents.chars))>>]

\* ------------------------------------------------------------------
\* State
\* ------------------------------------------------------------------
VARIABLES
    fs,           \* the workspace on disk: path -> contents or Absent
    config,       \* the taskExplorer configuration
    cachedTasks,  \* per detector: the module-level cache (undefined or a list)
    scans,        \* full scans in flight (detect*Files suspended at an await)
    handlers,     \* incremental invalidations suspended at their file read
    ret,          \* outcome of the step just taken
    fsOps,        \* number of filesystem changes so far
    cfgOps,       \* number of configuration changes so far
    stored,       \* history: first list stored since the last invalidation
    storedQuiet,  \* history: list stored while no other scan was in flight
    lastFull,     \* history: result of the last full scan on an unchanged disk
    dirty,        \* history: a scan in flight has seen the disk or settings change
    treeDataProvider,   \* the side bar view's provider (or none)
    treeDataProvider2,  \* the explorer view's provider (or none)
    watchers,     \* task type -> file system watcher and its listeners
    events,       \* file events the host has yet to deliver
    taskItems,    \* tasks of other providers that tasks.fetchTasks() returns
    inputBox,     \* run calls waiting for their argument prompt's answer
    taskExecutions,  \* the tasks handed to tasks.executeTask, in order
    landed,       \* history: the last incremental update that arrived during a full scan
    fetching,     \* getChildren calls suspended at `await tasks.fetchTasks()`
    treeFresh     \* history: the tree was built by a call begun after the last refresh

vars == <<fs, config, cachedTasks, scans, handlers, ret, fsOps, cfgOps,
          stored, storedQuiet, lastFull, dirty,
          treeDataProvider, treeDataProvider2, watchers, events,
          taskItems, inputBox, taskExecutions, landed, fetching, treeFresh>>

treeVars == <<taskItems, inputBox, taskExecutions>>

raceVars == <<landed, fetching, treeFresh>>

\* the history of arrivals is kept only where a specification switches it on
NotLanded == [on |-> FALSE, seen |-> {}]

extVars == <<treeDataProvider, treeDataProvider2, watchers>>

Undefined == [defined |-> FALSE, tasks |-> <<>>]

Arr(l) == [defined |-> TRUE, tasks |-> l]

\* a plausible slip: an empty list taken for "not cached yet"
truthyNonEmpty(c) == c.defined /\ c.tasks # <<>>

\* JavaScript truthiness of the cache variable: an empty array is truthy
truthy(c) == c.defined

Ret(op, det, opt, status, tasks, flag) ==
    [op |-> op, det |-> det, opt |-> opt, status |-> status, tasks |-> tasks,
     flag |-> flag, calls |-> <<>>, n |-> 0]

NoRet == Ret("none", "", NoUri, "ok", <<>>, FALSE)

RemoveAt(s, i) == SubSeq(s, 1, i - 1) \o SubSeq(s, i + 1, Len(s))

\* the configuration with every task type and both views switched on or off
ConfigWith(types, sideBar, explorer) ==
    [exclude |-> {}, pathToAnt |-> "", pathToGradle |-> "",
     enableAnsiconForAnt |-> FALSE,
     enableAnt |-> types, enableGradle |-> types, enableGrunt |-> types,
     enableBash |-> types, enableBatch |-> types,
     enableNpm |-> types, enableTsc |-> types,
     enableSideBar |-> sideBar, enableExplorerView |-> explorer]

NoProvider == [exists |-> FALSE, taskTree |-> Undefined]

NewProvider == [exists |-> TRUE, taskTree |-> Undefined]

NoWatcher == [exists |-> FALSE, glob |-> "", change |-> 0, delete |-> 0, create |-> 0]

WatcherTypes == {"ant", "grunt", "bash", "batch"}

Init ==
    /\ \E d \in Detectors :
          /\ fs \in [FilesOf(d) -> UNION {ContentsOfFile(f) : f \in FilesOf(d)} \cup {Absent}]
          /\ \A f \in FilesOf(d) : fs[f] \in ContentsOfFile(f) \cup {Absent}
    /\ config = ConfigWith(FALSE, FALSE, FALSE)
    /\ treeDataProvider = NoProvider
    /\ treeDataProvider2 = NoProvider
    /\ watchers = [t \in WatcherTypes |-> NoWatcher]
    /\ events = <<>>
    /\ cachedTasks = [d \in Detectors |-> Undefined]
    /\ scans = <<>>
    /\ handlers = <<>>
    /\ ret = NoRet
    /\ fsOps = 0
    /\ cfgOps = 0
    /\ stored = [d \in Detectors |-> Undefined]
    /\ storedQuiet = [d \in Detectors |-> Undefined]
    /\ lastFull = [d \in Detectors |-> Undefined]
    /\ dirty = [d \in Detectors |-> FALSE]
    /\ taskItems = <<>>
    /\ inputBox = <<>>
    /\ taskExecutions = <<>>
    /\ landed = NotLanded
    /\ fetching = {}
    /\ treeFresh = FALSE

\* ------------------------------------------------------------------
\* Full scan: provide* / detect*
\* ------------------------------------------------------------------
\* workspace.findFiles(relativePattern, util.getExcludesGlob(folder))
findFiles(files, cfg, d) ==
    SelectSeq(FileList(d), LAMBDA f : pathExists(files, f) /\ ~isExcluded(cfg, f))

\* a plausible slip: the list is kept across scans instead of created anew
newAllTasksKept(d) == lastFull[d].tasks

\* `let allTasks: Task[] = []`
newAllTasks(d) == <<>>

NewScan(d) ==
    [det |-> d, phase |-> "find", paths |-> findFiles(fs, config, d),
     reading |-> NoUri, allTasks |-> newAllTasks(d), visitedFiles |-> {},
     after |-> lastFull[d].defined]

readTasks(d, cfg, files, uri) ==
    CASE d = "ant" -> readAntfile(cfg, files, uri)
      [] d = "gradle" -> readGradlefile(cfg, files, uri)
      [] d = "script" -> createScriptTask(files, scriptTable(extname(uri)), uri)

\* the paths still to visit: next one passing the loop's test, or none
RECURSIVE skipPaths(_, _, _)
skipPaths(cfg, paths, visited) ==
    IF paths = <<>> THEN <<>>
    ELSE IF ~isExcluded(cfg, Head(paths)) /\ Head(paths) \notin visited THEN paths
    ELSE skipPaths(cfg, Tail(paths), visited)

\* detectScriptFiles: the loop has no await, it runs to its end in one turn
RECURSIVE scriptLoop(_, _, _, _, _)
scriptLoop(cfg, files, paths, visited, all) ==
    LET rest == skipPaths(cfg, paths, visited)
    IN  IF rest = <<>> THEN [raised |-> FALSE, tasks |-> all]
        ELSE LET r == createScriptTask(files, scriptTable(extname(Head(rest))), Head(rest))
             IN  IF r.raised THEN [raised |-> TRUE, tasks |-> all]
                 ELSE scriptLoop(cfg, files, Tail(rest),
                                 visited \cup {Head(rest)}, all \o r.tasks)

\* a plausible slip: the cache is made to hold the list while it is built
detectResultEarly(cache, allTasks, done) == Arr(allTasks)

\* a plausible slip: the finished list is added to what the cache holds
detectResultMerged(cache, allTasks, done) ==
    IF done THEN Arr(cache.tasks \o allTasks) ELSE cache

\* the cache variable after a turn of a scan: assigned only by
\* `cachedTasks = await detect...()`, that is when the scan has returned
detectResult(cache, allTasks, done) ==
    IF done THEN Arr(allTasks) ELSE cache

\* bound on the activations in flight; tighter once the extension's watchers
\* and configuration are exercised as well
PendingLimit ==
    IF \E t \in WatcherTypes : watchers[t].exists THEN MaxPendingExt ELSE MaxPending

ScansOf(d) == {i \in 1..Len(scans) : scans[i].det = d}

\* the detectors exercised: those whose files the workspace can hold
Active(d) == FilesOf(d) \cap DOMAIN fs # {}

ProvideTasks(d) ==
    /\ Active(d)
    /\ IF truthy(cachedTasks[d])
       THEN /\ ret' = Ret("provide", d, NoUri, "ok", cachedTasks[d].tasks, FALSE)
            /\ UNCHANGED scans
       ELSE /\ Len(scans) + Len(handlers) < PendingLimit
            /\ scans' = Append(scans, NewScan(d))
            /\ ret' = Ret("provide", d, NoUri, "pending", <<>>, TRUE)
    /\ landed' = IF ~truthy(cachedTasks[d]) /\ ScansOf(d) = {}
                 THEN [landed EXCEPT !.seen = {e \in @ : e.det # d}] ELSE landed
    /\ UNCHANGED <<fs, config, cachedTasks, handlers, fsOps, cfgOps,
                   stored, storedQuiet, lastFull, dirty, extVars, events,
                   treeVars, fetching, treeFresh>>

\* a scan that returned: the list is assigned to the cache
ScanFinish(i, allTasks) ==
    LET d == scans[i].det
    IN  /\ cachedTasks' = [cachedTasks EXCEPT ![d] = detectResult(@, allTasks, TRUE)]
        /\ scans' = RemoveAt(scans, i)
        /\ ret' = Ret("scanDone", d, NoUri, "ok", allTasks,
                      ~dirty[d] /\ scans[i].after)
        /\ stored' = [stored EXCEPT ![d] = IF @.defined THEN @ ELSE Arr(allTasks)]
        /\ storedQuiet' = [storedQuiet EXCEPT ![d] =
                              IF ScansOf(d) = {i} THEN Arr(allTasks) ELSE Undefined]
        /\ lastFull' = [lastFull EXCEPT ![d] = IF dirty[d] THEN @ ELSE Arr(allTasks)]
        /\ dirty' = [dirty EXCEPT ![d] = @ /\ ScansOf(d) # {i}]

\* a scan whose read or parse raised: detect* rejects, nothing is assigned
ScanReject(i) ==
    /\ scans' = RemoveAt(scans, i)
    /\ ret' = Ret("scanDone", scans[i].det, scans[i].reading, "raised", <<>>, FALSE)
    /\ dirty' = [dirty EXCEPT ![scans[i].det] = @ /\ ScansOf(scans[i].det) # {i}]
    /\ UNCHANGED <<cachedTasks, stored, storedQuiet, lastFull>>

\* the loop of detectAntScripts / detectGradlefiles up to its next await
ScanContinue(i, s1) ==
    LET rest == skipPaths(config, s1.paths, s1.visitedFiles)
    IN  IF rest = <<>> THEN ScanFinish(i, s1.allTasks)
        ELSE /\ scans' = [scans EXCEPT ![i] =
                  [s1 EXCEPT !.phase = "read", !.reading = Head(rest),
                             !.paths = Tail(rest)]]
             /\ cachedTasks' = [cachedTasks EXCEPT ![s1.det] =
                                   detectResult(@, s1.allTasks, FALSE)]
             /\ ret' = NoRet
             /\ UNCHANGED <<stored, storedQuiet, lastFull, dirty>>

ScanStep(i) ==
    LET s == scans[i]
    IN  /\ IF s.phase = "find"
           THEN IF s.det = "script"
                THEN LET r == scriptLoop(config, fs, s.paths, s.visitedFiles, s.allTasks)
                     IN  IF r.raised THEN ScanReject(i) ELSE ScanFinish(i, r.tasks)
                ELSE ScanContinue(i, s)
           ELSE LET r == readTasks(s.det, config, fs, s.reading)
                IN  IF r.raised THEN ScanReject(i)
                    ELSE ScanContinue(i,
                            [s EXCEPT !.allTasks = @ \o r.tasks,
                                      !.visitedFiles = @ \cup {s.reading},
                                      !.reading = NoUri])
        /\ UNCHANGED <<fs, config, handlers, fsOps, cfgOps, extVars, events, treeVars, raceVars>>

\* ------------------------------------------------------------------
\* Invalidation: invalidateTasksCacheAnt / Gradle / Script
\* ------------------------------------------------------------------
\* a plausible slip: the file name is compared instead of the full path
shouldRemoveByName(files, t, opt) ==
    basename(t.uri) = basename(opt) \/ ~pathExists(files, t.uri)

\* the test that selects the cached tasks to remove (Ant and Gradle)
shouldRemove(files, t, opt) == t.uri = opt \/ ~pathExists(files, t.uri)

\* the same test in the Script detector: no sweep of vanished files
shouldRemoveScript(files, t, opt) == t.uri = opt

removeTasks(d, files, tasks, opt) ==
    SelectSeq(tasks, LAMBDA t : IF d = "script" THEN ~shouldRemoveScript(files, t, opt)
                                ELSE ~shouldRemove(files, t, opt))

\* a plausible slip: the list is kept even when it is empty
keepOrResetKept(tasks) == Arr(tasks)

\* tail of the Ant/Gradle function: keep a non-empty list, else reset
keepOrReset(tasks) == IF Len(tasks) > 0 THEN Arr(tasks) ELSE Undefined

HandlersOf(d) == {i \in 1..Len(handlers) : handlers[i].det = d}

\* an invalidation ends the period in which the stored list is to be served
ResetStored(d) ==
    /\ stored' = [stored EXCEPT ![d] = Undefined]
    /\ storedQuiet' = [storedQuiet EXCEPT ![d] = Undefined]

invalidateAntGradle(d, opt) ==
    IF opt # NoUri /\ truthy(cachedTasks[d])
    THEN LET kept == removeTasks(d, fs, cachedTasks[d].tasks, opt)
         IN  IF pathExists(fs, opt) /\ ~existsInArray(config.exclude, opt)
             THEN /\ Len(scans) + Len(handlers) < PendingLimit
                  /\ cachedTasks' = [cachedTasks EXCEPT ![d] = Arr(kept)]
                  /\ handlers' = Append(handlers, [det |-> d, opt |-> opt])
                  /\ ret' = Ret("invalidate", d, opt, "pending", kept, TRUE)
             ELSE /\ cachedTasks' = [cachedTasks EXCEPT ![d] = keepOrReset(kept)]
                  /\ ret' = Ret("invalidate", d, opt, "ok", kept, pathExists(fs, opt))
                  /\ UNCHANGED handlers
    ELSE /\ cachedTasks' = [cachedTasks EXCEPT ![d] = Undefined]
         /\ ret' = Ret("invalidate", d, opt, "ok", <<>>, pathExists(fs, opt))
         /\ UNCHANGED handlers

invalidateScript(opt) ==
    /\ IF opt # NoUri
       THEN IF ~truthy(cachedTasks["script"])
            THEN \* cachedTasks.forEach on undefined
                 /\ ret' = Ret("invalidate", "script", opt, "raised", <<>>,
                               pathExists(fs, opt))
                 /\ UNCHANGED cachedTasks
            ELSE LET kept == removeTasks("script", fs, cachedTasks["script"].tasks, opt)
                     r == createScriptTask(fs, scriptTable(extname(opt)), opt)
                 IN  IF r.raised
                     THEN /\ cachedTasks' = [cachedTasks EXCEPT !["script"] = Arr(kept)]
                          /\ ret' = Ret("invalidate", "script", opt, "raised", kept,
                                        pathExists(fs, opt))
                     ELSE /\ cachedTasks' = [cachedTasks EXCEPT !["script"] =
                                                Arr(kept \o r.tasks)]
                          /\ ret' = Ret("invalidate", "script", opt, "ok",
                                        kept \o r.tasks, pathExists(fs, opt))
       ELSE /\ cachedTasks' = [cachedTasks EXCEPT !["script"] = Undefined]
            /\ ret' = Ret("invalidate", "script", opt, "ok", <<>>, FALSE)
    /\ UNCHANGED handlers

\* a call of the exported invalidate function of detector d
Invalidate(d, opt) ==
    /\ Active(d)
    /\ IF d = "script" THEN invalidateScript(opt) ELSE invalidateAntGradle(d, opt)
    /\ ResetStored(d)
    /\ landed' = IF landed.on /\ opt # NoUri /\ ScansOf(d) # {}
                 THEN [landed EXCEPT !.seen =
                          {[det |-> d, uri |-> opt,
                            content |-> IF opt \in DOMAIN fs THEN fs[opt] ELSE Absent]}]
                 ELSE landed
    /\ UNCHANGED <<fs, config, scans, fsOps, cfgOps, lastFull, dirty, extVars, events,
                   treeVars, fetching, treeFresh>>

\* the rest of invalidateTasksCacheAnt/Gradle after `await read*file(opt)`
HandlerResume(i) ==
    LET h == handlers[i]
        d == h.det
        r == readTasks(d, config, fs, h.opt)
    IN  /\ handlers' = RemoveAt(handlers, i)
        /\ IF r.raised
           THEN /\ ret' = Ret("resume", d, h.opt, "raised", <<>>, FALSE)
                /\ UNCHANGED cachedTasks
           ELSE IF ~truthy(cachedTasks[d])
           THEN \* cachedTasks.push on undefined
                /\ ret' = Ret("resume", d, h.opt, "raised", <<>>, TRUE)
                /\ UNCHANGED cachedTasks
           ELSE /\ cachedTasks' = [cachedTasks EXCEPT ![d] =
                                      keepOrReset(@.tasks \o r.tasks)]
                /\ ret' = Ret("resume", d, h.opt, "ok", r.tasks, FALSE)
        /\ ResetStored(d)
        /\ UNCHANGED <<fs, config, scans, fsOps, cfgOps, lastFull, dirty, extVars, events,
                   treeVars, raceVars>>

\* ------------------------------------------------------------------
\* The environment: the disk changes under the program
\* ------------------------------------------------------------------
\* the scans in flight no longer run on one state of the disk, and the last
\* full result no longer describes it
DiskChanged(d) ==
    /\ dirty' = [dirty EXCEPT ![d] = ScansOf(d) # {}]
    /\ lastFull' = [lastFull EXCEPT ![d] = Undefined]
    /\ scans' = [i \in 1..Len(scans) |->
                    IF scans[i].det = d THEN [scans[i] EXCEPT !.after = FALSE]
                    ELSE scans[i]]

\* the globs of registerFileWatchers, by the files of the model they match
GlobOfFile(f) ==
    CASE f \in FilesOf("ant") -> "**/[Bb]uild.xml"
      [] f \in FilesOf("gradle") -> "**/*.[Gg][Rr][Aa][Dd][Ll][Ee]"
      [] f = "run.sh" -> "**/*.[Ss][Hh]"
      [] f = "go.bat" -> "**/*.[Bb][Aa][Tt]"

WatchersOf(f) == {t \in WatcherTypes : watchers[t].exists /\ watchers[t].glob = GlobOfFile(f)}

\* the host queues an event for a path some watcher's glob matches
Notify(kind, f) ==
    events' = IF WatchersOf(f) # {} THEN Append(events, [kind |-> kind, uri |-> f])
              ELSE events

FsWrite(f, c) ==
    /\ fsOps < MaxFsOps
    /\ f \in DOMAIN fs
    /\ c \in ContentsOfFile(f)
    /\ c # fs[f]
    /\ fs' = [fs EXCEPT ![f] = c]
    /\ fsOps' = fsOps + 1
    /\ ret' = NoRet
    /\ DiskChanged(DetectorOfFile(f))
    /\ Notify(IF fs[f] = Absent THEN "create" ELSE "change", f)
    /\ UNCHANGED <<config, cachedTasks, handlers, cfgOps, stored, storedQuiet, extVars,
                   treeVars, raceVars>>

FsDelete(f) ==
    /\ fsOps < MaxFsOps
    /\ f \in DOMAIN fs
    /\ fs[f] # Absent
    /\ fs' = [fs EXCEPT ![f] = Absent]
    /\ fsOps' = fsOps + 1
    /\ ret' = NoRet
    /\ DiskChanged(DetectorOfFile(f))
    /\ Notify("delete", f)
    /\ UNCHANGED <<config, cachedTasks, handlers, cfgOps, stored, storedQuiet, extVars,
                   treeVars, raceVars>>

\* ------------------------------------------------------------------
\* The extension: file watchers, tree providers, refreshTree
\* ------------------------------------------------------------------
AntGlob == "**/[Bb]uild.xml"
GradleGlob == "**/*.[Gg][Rr][Aa][Dd][Ll][Ee]"
GruntGlob == "**/[Gg][Rr][Uu][Nn][Tt][Ff][Ii][Ll][Ee].[Jj][Ss]"
BashGlob == "**/*.[Ss][Hh]"
BatGlob == "**/*.[Bb][Aa][Tt]"
CmdGlob == "**/*.[Cc][Mm][Dd]"

registerFileWatcher(w, taskType, fileBlob, isScriptType, enabled) ==
    IF enabled
    THEN LET cur == IF w[taskType].exists THEN w[taskType]
                    ELSE [NoWatcher EXCEPT !.exists = TRUE, !.glob = fileBlob]
         IN  [w EXCEPT ![taskType] =
                 [cur EXCEPT !.change = IF isScriptType THEN @ ELSE @ + 1,
                             !.delete = @ + 1,
                             !.create = @ + 1]]
    ELSE w

\* includeAnt is empty in the model: only the build.xml watcher
registerFileWatcherAnt(w, enabled) ==
    registerFileWatcher(w, "ant", AntGlob, FALSE, enabled)

registerFileWatchers(cfg) ==
    LET w0 == [t \in WatcherTypes |-> NoWatcher]
        w1 == IF cfg.enableAnt THEN registerFileWatcherAnt(w0, TRUE) ELSE w0
        w2 == IF cfg.enableBash THEN registerFileWatcher(w1, "bash", BashGlob, TRUE, TRUE)
              ELSE w1
        w3 == IF cfg.enableBatch
              THEN registerFileWatcher(
                      registerFileWatcher(w2, "batch", BatGlob, TRUE, TRUE),
                      "batch", CmdGlob, TRUE, TRUE)
              ELSE w2
        w4 == IF cfg.enableGradle
              THEN registerFileWatcher(w3, "grunt", GradleGlob, FALSE, TRUE) ELSE w3
        w5 == IF cfg.enableGrunt
              THEN registerFileWatcher(w4, "grunt", GruntGlob, FALSE, TRUE) ELSE w4
    IN  w5

\* values of refresh's parameter that are not task types
NoType == "<undefined>"
False == "<false>"

\* TaskTreeDataProvider.invalidateTasksCache: the invalidate functions it calls
invalidateTasksCache(invalidate) ==
    IF invalidate # NoType /\ invalidate # False
    THEN CASE invalidate = "ant" -> <<"ant">>
           [] invalidate = "grunt" -> <<"grunt">>
           [] invalidate = "gulp" -> <<"gulp">>
           [] invalidate = "make" -> <<"make">>
           [] OTHER -> <<"script">>
    ELSE <<"ant", "make", "script", "grunt", "gulp">>

\* a plausible slip: the caches are invalidated whatever the argument
refreshAlways(invalidate) == invalidateTasksCache(invalidate)

\* TaskTreeDataProvider.refresh: the invalidate functions called
refresh(invalidate) ==
    IF invalidate # False THEN invalidateTasksCache(invalidate) ELSE <<>>

\* what `await treeDataProvider.refresh(...)` yields: refresh returns nothing
refreshReturn == FALSE

\* refreshTree: the invalidate functions called, in order
refreshTree(cfg, p1, p2, taskType) ==
    LET v1 == cfg.enableSideBar /\ p1.exists
        v2 == cfg.enableExplorerView /\ p2.exists
        refreshedTasks == v1 /\ refreshReturn
        arg2 == IF ~refreshedTasks THEN taskType
                ELSE IF taskType # "visible-event" THEN False ELSE taskType
    IN  (IF v1 THEN refresh(taskType) ELSE <<>>)
           \o (IF v2 THEN refresh(arg2) ELSE <<>>)

RECURSIVE Repeat(_, _)
Repeat(s, n) == IF n = 0 THEN <<>> ELSE s \o Repeat(s, n - 1)

\* the state after `times` calls of refreshTree(taskType)
ApplyRefresh(cfg, p1, p2, taskType, times, calls) ==
    LET hit == IF times > 0 THEN Range(calls) ELSE {}
    IN  /\ cachedTasks' = [d \in Detectors |->
                              IF d \in hit THEN Undefined ELSE cachedTasks[d]]
        /\ stored' = [d \in Detectors |-> IF d \in hit THEN Undefined ELSE stored[d]]
        /\ storedQuiet' = [d \in Detectors |->
                              IF d \in hit THEN Undefined ELSE storedQuiet[d]]
        /\ treeDataProvider' =
              IF times > 0 /\ cfg.enableSideBar /\ p1.exists
              THEN [p1 EXCEPT !.taskTree = Undefined] ELSE p1
        /\ treeDataProvider2' =
              IF times > 0 /\ cfg.enableExplorerView /\ p2.exists
              THEN [p2 EXCEPT !.taskTree = Undefined] ELSE p2

ScanKeys == {"exclude", "enableAnt", "enableGradle", "enableBash", "enableBatch",
             "pathToAnt", "pathToGradle"}

\* the settings that bear on the files of detector d
KeysOf(d) ==
    CASE d = "ant" -> {"exclude", "enableAnt", "pathToAnt"}
      [] d = "gradle" -> {"exclude", "enableGradle", "pathToGradle"}
      [] d = "script" -> {"exclude", "enableBash", "enableBatch"}

ViewKeys == {"enableSideBar", "enableExplorerView"}

ConfigValues(key) ==
    CASE key = "exclude" -> {{}} \cup {{p} : p \in UNION {ExcludePatterns(d) : d \in {e \in Detectors : Active(e)}}}
      [] key \in {"pathToAnt", "pathToGradle"} -> {"", "/opt/tool"}
      [] OTHER -> BOOLEAN

\* workspace.onDidChangeConfiguration -> processConfigChanges
ProcessConfigChanges(key, val) ==
    LET cfg == [config EXCEPT ![key] = val]
        w   == CASE key = "enableAnt" -> registerFileWatcherAnt(watchers, val)
                 [] key = "enableBash" ->
                        registerFileWatcher(watchers, "bash", BashGlob, TRUE, val)
                 [] key = "enableBatch" ->
                        registerFileWatcher(
                           registerFileWatcher(watchers, "batch", BatGlob, TRUE, val),
                           "batch", CmdGlob, TRUE, val)
                 [] key = "enableGradle" ->
                        registerFileWatcher(watchers, "grunt", GradleGlob, FALSE, val)
                 [] OTHER -> watchers
        p1  == IF key = "enableSideBar" /\ val /\ ~treeDataProvider.exists
               THEN NewProvider ELSE treeDataProvider
        p2  == IF key = "enableExplorerView" /\ val /\ ~treeDataProvider2.exists
               THEN NewProvider ELSE treeDataProvider2
        doRefresh ==
               \/ key \in ScanKeys
               \/ (key = "enableSideBar" /\ val /\ treeDataProvider.exists)
               \/ (key = "enableExplorerView" /\ val /\ treeDataProvider2.exists)
        calls == refreshTree(cfg, p1, p2, NoType)
    IN  /\ cfgOps < MaxConfigChanges
        /\ key \in ViewKeys \cup UNION {KeysOf(d) : d \in {e \in Detectors : Active(e)}}
        /\ val \in ConfigValues(key)
        /\ val # config[key]
        /\ config' = cfg
        /\ cfgOps' = cfgOps + 1
        /\ watchers' = w
        /\ ApplyRefresh(cfg, p1, p2, NoType, IF doRefresh THEN 1 ELSE 0, calls)
        /\ ret' = [Ret("config", "", key, "ok", <<>>, key \in ScanKeys)
                      EXCEPT !.calls = IF doRefresh THEN calls ELSE <<>>,
                             !.n = IF doRefresh THEN 1 ELSE 0]
        /\ dirty' = [d \in Detectors |-> ScansOf(d) # {}]
        /\ lastFull' = [d \in Detectors |-> Undefined]
        /\ scans' = [i \in 1..Len(scans) |-> [scans[i] EXCEPT !.after = FALSE]]
        /\ UNCHANGED <<fs, handlers, fsOps, events, treeVars, raceVars>>

\* the host delivers a file event to the listeners of the matching watcher
FileEvent ==
    /\ events # <<>>
    /\ LET e == Head(events)
           ts == WatchersOf(e.uri)
           t == IF ts = {} THEN "" ELSE CHOOSE x \in ts : TRUE
           n == IF ts = {} THEN 0
                ELSE CASE e.kind = "change" -> watchers[t].change
                       [] e.kind = "delete" -> watchers[t].delete
                       [] e.kind = "create" -> watchers[t].create
           calls == refreshTree(config, treeDataProvider, treeDataProvider2, t)
       IN  /\ ApplyRefresh(config, treeDataProvider, treeDataProvider2, t, n, calls)
           /\ ret' = [Ret("fileEvent", DetectorOfFile(e.uri), e.uri, "ok", <<>>,
                          (config.enableSideBar /\ treeDataProvider.exists)
                             \/ (config.enableExplorerView /\ treeDataProvider2.exists))
                         EXCEPT !.calls = Repeat(calls, n), !.n = n]
    /\ events' = Tail(events)
    /\ UNCHANGED <<fs, config, scans, handlers, fsOps, cfgOps, lastFull, dirty, watchers,
                   treeVars, raceVars>>

Next ==
    \/ \E d \in Detectors : ProvideTasks(d)
    \/ \E i \in 1..Len(scans) : ScanStep(i)
    \/ \E d \in Detectors : \E opt \in FilesOf(d) \cup {NoUri} : Invalidate(d, opt)
    \/ \E i \in 1..Len(handlers) : HandlerResume(i)
    \/ \E f \in AllFiles : \E c \in ContentsOfFile(f) : FsWrite(f, c)
    \/ \E f \in AllFiles : FsDelete(f)

Spec == Init /\ [][Next]_vars

\* The extension activated with every task type enabled
DefaultContent(f) ==
    CASE f \in FilesOf("ant") -> AntGood
      [] f \in FilesOf("gradle") -> GradleTwo
      [] f = "go.bat" -> ScriptArgs
      [] OTHER -> ScriptNoArgs

InitExt ==
    /\ \E d \in Detectors : fs = [f \in (IF d = "script" THEN FilesOf(d) ELSE {FileList(d)[1]})
                                       |-> DefaultContent(f)]
    /\ \E sb \in BOOLEAN, ev \in BOOLEAN :
          /\ config = ConfigWith(TRUE, sb, ev)
          /\ treeDataProvider = IF sb THEN NewProvider ELSE NoProvider
          /\ treeDataProvider2 = IF ev THEN NewProvider ELSE NoProvider
    /\ watchers = registerFileWatchers(config)
    /\ events = <<>>
    /\ cachedTasks = [d \in Detectors |-> Undefined]
    /\ scans = <<>>
    /\ handlers = <<>>
    /\ ret = NoRet
    /\ fsOps = 0
    /\ cfgOps = 0
    /\ stored = [d \in Detectors |-> Undefined]
    /\ storedQuiet = [d \in Detectors |-> Undefined]
    /\ lastFull = [d \in Detectors |-> Undefined]
    /\ dirty = [d \in Detectors |-> FALSE]
    /\ taskItems = <<>>
    /\ inputBox = <<>>
    /\ taskExecutions = <<>>
    /\ landed = NotLanded
    /\ fetching = {}
    /\ treeFresh = FALSE

\* the extension never passes a file to the invalidate functions: its caches
\* change through provideTasks, refreshTree and nothing else
NextExt ==
    \/ \E d \in Detectors : ProvideTasks(d)
    \/ \E i \in 1..Len(scans) : ScanStep(i)
    \/ \E f \in AllFiles : \E c \in ContentsOfFile(f) : FsWrite(f, c)
    \/ \E f \in AllFiles : FsDelete(f)
    \/ \E key \in ScanKeys \cup ViewKeys : \E val \in ConfigValues(key) :
          ProcessConfigChanges(key, val)
    \/ FileEvent

SpecExt == InitExt /\ [][NextExt]_vars

\* ------------------------------------------------------------------
\* The tree provider: buildTaskTree / getChildren
\* ------------------------------------------------------------------
MaxTasks == 3

\* a task scope that is a TaskScope number, not a workspace folder
GlobalScope == "<global>"

\* a task as tasks.fetchTasks() hands it over: name, source, scope and the
\* fields of its definition; names are sequences of text pieces in which the
\* separator " - " is a piece of its own
VsTask(source, scope, name, path, fileName, scriptFile, requiresArgs, cmdLine) ==
    [source |-> source, scope |-> scope, name |-> name, path |-> path,
     fileName |-> fileName, scriptFile |-> scriptFile,
     requiresArgs |-> requiresArgs, cmdLine |-> cmdLine,
     execution |-> [commandLine |-> cmdLine, replaced |-> FALSE]]

\* 'enable' + util.properCase(each.source)
settingName(source) ==
    CASE source = "ant" -> "enableAnt"
      [] source = "gradle" -> "enableGradle"
      [] source = "grunt" -> "enableGrunt"
      [] source = "bash" -> "enableBash"
      [] source = "batch" -> "enableBatch"
      [] source = "npm" -> "enableNpm"
      [] source = "tsc" -> "enableTsc"
      [] OTHER -> "enable"

\* configuration.get(settingName): undefined (falsy) for an unknown setting
configGet(cfg, name) == IF name \in DOMAIN cfg THEN cfg[name] ELSE FALSE

\* relativePath.substring(0, relativePath.length - 1) on the paths of the model
dropLastChar(relativePath) ==
    CASE relativePath = "sub/" -> "sub"
      [] relativePath = "app/" -> "app"
      [] relativePath = "lib/" -> "lib"
      [] OTHER -> relativePath

getTaskName(script, relativePath, forcePathInName) ==
    IF relativePath # "" /\ forcePathInName
    THEN script \o <<" - ", dropLastChar(relativePath)>>
    ELSE script

isInstallTask(task) == getTaskName(<<"install">>, task.path, FALSE) = task.name

isWorkspaceFolder(value) == value # GlobalScope

\* each.name.indexOf(' - '), as the 1-based position of the piece, 0 for -1
sepIndex(name) ==
    IF \E i \in 1..Len(name) : name[i] = " - "
    THEN CHOOSE i \in 1..Len(name) :
            name[i] = " - " /\ \A j \in 1..(i - 1) : name[j] # " - "
    ELSE 0

\* each.name.indexOf(' - tsconfig.json') !== -1
hasTsconfigSep(name) ==
    \E i \in 1..(Len(name) - 1) : name[i] = " - " /\ name[i + 1] = "tsconfig.json"

\* path.dirname of the pieces after the separator
dirname(pieces) ==
    IF \E i \in 1..Len(pieces) : pieces[i] = "/"
    THEN LET last == CHOOSE i \in 1..Len(pieces) :
                        pieces[i] = "/" /\ \A j \in (i + 1)..Len(pieces) : pieces[j] # "/"
         IN  IF last = 2 THEN pieces[1] ELSE "."
    ELSE "."

\* path.join(each.scope.uri.path, relativePath): the directory as the
\* exclusion patterns of the model name it
joinPath(scope, relativePath) ==
    CASE scope = "lib" /\ relativePath = "src" -> "lib/src"
      [] scope = "proj" /\ relativePath = "src" -> "proj/src"
      [] OTHER -> scope

NewTaskFolder(scope) == [label |-> scope, taskFiles |-> <<>>]

NewTaskFile(folder, id, source, relativePath, group, scripts) ==
    [id |-> id, folder |-> folder, taskSource |-> source, path |-> relativePath,
     isGroup |-> group, scripts |-> scripts]

\* TaskItem: the label drops the path a tsc or npm name carries
NewTaskItem(taskFile, task) ==
    LET k == sepIndex(task.name)
        taskName == IF k # 0 /\ ((\E i \in 1..Len(task.name) : task.name[i] \in {"/", "\\"})
                                   \/ hasTsconfigSep(task.name))
                    THEN SubSeq(task.name, 1, k - 1) ELSE task.name
    IN  [label |-> taskName, taskFile |-> taskFile, task |-> task]

IndexWhere(s, Test(_)) ==
    IF \E i \in 1..Len(s) : Test(s[i])
    THEN CHOOSE i \in 1..Len(s) : Test(s[i]) /\ \A j \in 1..(i - 1) : ~Test(s[j])
    ELSE 0

\* the composite id the files map is keyed by
fileId(each, relativePath) ==
    <<each.source, each.scope, relativePath,
      IF each.fileName # "" /\ ~each.scriptFile THEN each.fileName ELSE "">>

\* the body of tasks.forEach: one task placed in (or kept out of) the tree
placeTask(cfg, folders, each) ==
    IF configGet(cfg, settingName(each.source)) /\ isWorkspaceFolder(each.scope)
          /\ ~isInstallTask(each)
    THEN LET fs1 == IF IndexWhere(folders, LAMBDA f : f.label = each.scope) = 0
                    THEN Append(folders, NewTaskFolder(each.scope)) ELSE folders
             fi  == IndexWhere(fs1, LAMBDA f : f.label = each.scope)
             fromName == each.source = "tsc" /\ sepIndex(each.name) # 0
                            /\ ~hasTsconfigSep(each.name)
             relativePath ==
                 IF fromName
                 THEN dirname(SubSeq(each.name, sepIndex(each.name) + 1, Len(each.name)))
                 ELSE each.path
         IN  IF fromName /\ isExcluded(cfg, joinPath(each.scope, relativePath))
             THEN fs1
             ELSE LET id == fileId(each, relativePath)
                      files0 == fs1[fi].taskFiles
                      files1 == IF IndexWhere(files0, LAMBDA t : t.id = id) = 0
                                THEN Append(files0, NewTaskFile(each.scope, id, each.source,
                                                                relativePath, FALSE, <<>>))
                                ELSE files0
                      k == IndexWhere(files1, LAMBDA t : t.id = id)
                  IN  [fs1 EXCEPT ![fi].taskFiles =
                          [files1 EXCEPT ![k].scripts = Append(@, NewTaskItem(id, each))]]
    ELSE folders

RECURSIVE placeTasks(_, _, _)
placeTasks(cfg, folders, tasks) ==
    IF tasks = <<>> THEN folders
    ELSE placeTasks(cfg, placeTask(cfg, folders, Head(tasks)), Tail(tasks))

\* String.prototype.localeCompare on the task sources and on the labels of
\* the model: their rank in alphabetical order
SourceOrder == <<"ant", "bash", "batch", "gradle", "grunt", "npm", "tsc">>

LabelOrder == << <<"b">>, <<"build">>, <<"build", " - Default">>, <<"c">>, <<"clean">>,
                 <<"go.bat">>, <<"install">>, <<"run.sh">>, <<"watch">> >>

RankIn(order, x) == IndexWhere(order, LAMBDA y : y = x)

\* Array.prototype.sort: stable, by ascending rank
RECURSIVE sortFrom(_, _, _)
sortFrom(s, ranks, todo) ==
    IF todo = {} THEN <<>>
    ELSE LET r == CHOOSE m \in todo : \A n \in todo : m <= n
             at == SelectSeq([i \in 1..Len(s) |-> [i |-> i, v |-> s[i]]],
                             LAMBDA e : ranks[e.i] = r)
         IN  [i \in 1..Len(at) |-> at[i].v] \o sortFrom(s, ranks, todo \ {r})

sortBy(s, ranks) == sortFrom(s, ranks, Range(ranks))

sortScripts(scripts) ==
    sortBy(scripts, [i \in 1..Len(scripts) |-> RankIn(LabelOrder, scripts[i].label)])

\* a plausible slip: the files are left in the order the tasks came in
sortTaskFilesKept(taskFiles) == taskFiles

sortTaskFiles(taskFiles) ==
    sortBy(taskFiles,
           [i \in 1..Len(taskFiles) |-> RankIn(SourceOrder, taskFiles[i].taskSource)])

\* the key of the subfolders map, folder.label + each.taskSource: no source
\* with an enable setting ends in another one, so the pair stands for it
subfolderId(label, taskSource) == <<label, taskSource>>

\* the walk over the sorted files of a folder: runs of one source are
\* gathered under a group node appended to the folder
RECURSIVE promote(_, _, _, _, _)
promote(label, sorted, i, taskFiles, subfolders) ==
    IF i > Len(sorted) THEN [taskFiles |-> taskFiles, subfolders |-> subfolders]
    ELSE LET each == sorted[i]
             id == subfolderId(label, each.taskSource)
         IN  IF i > 1 /\ sorted[i - 1].taskSource = each.taskSource
             THEN IF id \notin subfolders
                  THEN promote(label, sorted, i + 1,
                               Append(taskFiles,
                                      NewTaskFile(label, <<"group", label, each.taskSource>>,
                                                  each.taskSource, each.path, TRUE,
                                                  <<sorted[i - 1], each>>)),
                               subfolders \cup {id})
                  ELSE LET g == IndexWhere(taskFiles,
                                   LAMBDA t : t.isGroup /\ t.taskSource = each.taskSource)
                       IN  promote(label, sorted, i + 1,
                                   IF g = 0 THEN taskFiles
                                   ELSE [taskFiles EXCEPT ![g].scripts = Append(@, each)],
                                   subfolders)
             ELSE promote(label, sorted, i + 1, taskFiles, subfolders)

\* a plausible slip: the files gathered under a group stay in the folder too
sortFolderKeepsFiles(folder, subfolders) ==
    LET files1 == [i \in 1..Len(folder.taskFiles) |->
                      [folder.taskFiles[i] EXCEPT !.scripts = sortScripts(@)]]
        files2 == sortTaskFiles(files1)
        p      == promote(folder.label, files2, 1, files2, subfolders)
    IN  [folder |-> [folder EXCEPT !.taskFiles = sortTaskFiles(p.taskFiles)],
         subfolders |-> p.subfolders]

\* the body of folders.forEach
sortFolder(folder, subfolders) ==
    LET files1 == [i \in 1..Len(folder.taskFiles) |->
                      [folder.taskFiles[i] EXCEPT !.scripts = sortScripts(@)]]
        files2 == sortTaskFiles(files1)
        p      == promote(folder.label, files2, 1, files2, subfolders)
        files3 == SelectSeq(p.taskFiles,
                     LAMBDA t : ~(~t.isGroup
                                    /\ subfolderId(folder.label, t.taskSource)
                                          \in p.subfolders))
    IN  [folder |-> [folder EXCEPT !.taskFiles = sortTaskFiles(files3)],
         subfolders |-> p.subfolders]

RECURSIVE sortFolders(_, _, _)
sortFolders(folders, i, subfolders) ==
    IF i > Len(folders) THEN folders
    ELSE LET r == sortFolder(folders[i], subfolders)
         IN  sortFolders([folders EXCEPT ![i] = r.folder], i + 1, r.subfolders)

buildTaskTree(cfg, tasks) == sortFolders(placeTasks(cfg, <<>>, tasks), 1, {})

NoScripts == [label |-> "No scripts found", contextValue |-> "noscripts"]

\* a plausible slip: the empty list is handed to the view as it is
orNoScriptsNever(tree) == tree

\* `if (this.taskTree.length === 0) this.taskTree = [new NoScripts()]`
orNoScripts(tree) == IF Len(tree) = 0 THEN <<NoScripts>> ELSE tree

\* what tasks.fetchTasks() resolves to: the tasks of the other providers and
\* a copy of every task the detectors have cached
fetchedOf(t) ==
    VsTask(t.source, "proj", t.name, t.path, t.fileName, t.type = "script",
           t.requiresArgs, IF t.type = "script" THEN t.cmd ELSE <<>>)

fetchTasks ==
    LET of(d) == [i \in 1..Len(cachedTasks[d].tasks) |-> fetchedOf(cachedTasks[d].tasks[i])]
    IN  taskItems \o of("ant") \o of("gradle") \o of("script")

NoElement == "<undefined>"

\* the elements the view can ask the children of: none, or a node of the tree
\* it was last given
FolderElements(tree) ==
    {i \in 1..Len(tree) : "taskFiles" \in DOMAIN tree[i]}

\* a reference to a node of the tree: a folder by its label, a file by its id
NullRef == [kind |-> "null", key |-> <<>>]

NodeRef(element) ==
    IF "taskFiles" \in DOMAIN element
    THEN [kind |-> "TaskFolder", key |-> <<element.label>>]
    ELSE [kind |-> "TaskFile", key |-> element.id]

\* getParent(element): the folder a TaskFile was constructed with, the
\* TaskFile a TaskItem was constructed with, null for everything else
getParent(element) ==
    IF "taskFiles" \in DOMAIN element THEN NullRef
    ELSE IF "isGroup" \in DOMAIN element
    THEN [kind |-> "TaskFolder", key |-> <<element.folder>>]
    ELSE IF "task" \in DOMAIN element
    THEN [kind |-> "TaskFile", key |-> element.taskFile]
    ELSE NullRef

\* getChildren(element), from the point where fetchTasks has resolved
GetChildren(e) ==
    LET p == treeDataProvider
        taskTree == IF ~truthy(p.taskTree)
                    THEN Arr(orNoScripts(buildTaskTree(config, fetchTasks)))
                    ELSE p.taskTree
        folders == FolderElements(taskTree.tasks)
    IN  /\ p.exists
        /\ scans = <<>> /\ handlers = <<>>
        /\ \A d \in Detectors : Active(d) => truthy(cachedTasks[d])
        /\ treeDataProvider' = [p EXCEPT !.taskTree = taskTree]
        /\ \/ /\ e = NoElement
              /\ ret' = Ret("getChildren", "", e, "ok", taskTree.tasks, FALSE)
           \/ /\ e = "TaskFolder"
              /\ \E i \in folders :
                    ret' = Ret("getChildren", "", e, "ok", taskTree.tasks[i].taskFiles,
                               FALSE)
           \/ /\ e = "TaskFile"
              /\ \E i \in folders : \E k \in 1..Len(taskTree.tasks[i].taskFiles) :
                    ret' = Ret("getChildren", "", e, "ok",
                               taskTree.tasks[i].taskFiles[k].scripts, FALSE)
        /\ UNCHANGED <<fs, config, cachedTasks, scans, handlers, fsOps, cfgOps,
                       stored, storedQuiet, lastFull, dirty, treeDataProvider2,
                       watchers, events, treeVars, raceVars>>

\* the run calls waiting at showInputBox lose their place in the tree when
\* the tree is dropped: their TaskItem is no longer part of it
Detached(box) == [i \in 1..Len(box) |-> [box[i] EXCEPT !.attached = FALSE]]

\* TaskTreeDataProvider.refresh: the refresh command (no argument) and the
\* onDidStartTask / onDidEndTask listeners (false)
Refresh(invalidate) ==
    LET calls == refresh(invalidate)
    IN  /\ treeDataProvider.exists
        /\ treeDataProvider' = [treeDataProvider EXCEPT !.taskTree = Undefined]
        /\ cachedTasks' = [d \in Detectors |->
                              IF d \in Range(calls) THEN Undefined ELSE cachedTasks[d]]
        /\ stored' = [d \in Detectors |->
                         IF d \in Range(calls) THEN Undefined ELSE stored[d]]
        /\ storedQuiet' = [d \in Detectors |->
                              IF d \in Range(calls) THEN Undefined ELSE storedQuiet[d]]
        /\ inputBox' = Detached(inputBox)
        /\ fetching' = {[r EXCEPT !.before = TRUE] : r \in fetching}
        /\ treeFresh' = FALSE
        /\ ret' = [Ret("refresh", "", invalidate, "ok", <<>>, FALSE)
                      EXCEPT !.calls = calls]
        /\ UNCHANGED <<fs, config, scans, handlers, fsOps, cfgOps, lastFull, dirty,
                       treeDataProvider2, watchers, events, taskItems, taskExecutions,
                       landed>>

MaxRuns == 1

\* the TaskItems of a tree, each by the path that leads to it: folder, file,
\* (file within a group,) item
ItemPaths(tree) ==
    UNION {UNION {IF tree[i].taskFiles[k].isGroup
                  THEN UNION {{<<i, k, m, j>> :
                                  j \in 1..Len(tree[i].taskFiles[k].scripts[m].scripts)} :
                              m \in 1..Len(tree[i].taskFiles[k].scripts)}
                  ELSE {<<i, k, j>> : j \in 1..Len(tree[i].taskFiles[k].scripts)} :
                  k \in 1..Len(tree[i].taskFiles)} :
           i \in FolderElements(tree)}

ItemAt(tree, path) ==
    IF Len(path) = 3 THEN tree[path[1]].taskFiles[path[2]].scripts[path[3]]
    ELSE tree[path[1]].taskFiles[path[2]].scripts[path[3]].scripts[path[4]]

\* `taskItem.task.execution = new ShellExecution(...)` seen through the tree
WithExecution(tree, path, execution) ==
    IF Len(path) = 3
    THEN [tree EXCEPT ![path[1]].taskFiles[path[2]].scripts[path[3]].task.execution =
                         execution]
    ELSE [tree EXCEPT ![path[1]].taskFiles[path[2]].scripts[path[3]].scripts[path[4]]
                         .task.execution = execution]

\* a plausible slip: no task is taken to need arguments
needsArgsNever(task) == FALSE

\* `taskItem.task.definition.requiresArgs === true`
needsArgs(task) == task.requiresArgs = TRUE

\* run(taskItem), up to showInputBox for a task that needs arguments
Run(path) ==
    LET tree == treeDataProvider.taskTree.tasks
        taskItem == ItemAt(tree, path)
    IN  /\ treeDataProvider.exists
        /\ truthy(treeDataProvider.taskTree)
        /\ path \in ItemPaths(tree)
        /\ Len(inputBox) + Len(taskExecutions) < MaxRuns
        /\ IF needsArgs(taskItem.task)
           THEN /\ inputBox' = Append(inputBox, [path |-> path, task |-> taskItem.task,
                                                 attached |-> TRUE])
                /\ ret' = Ret("run", "", NoUri, "pending", <<taskItem.task>>, TRUE)
                /\ UNCHANGED taskExecutions
           ELSE /\ taskExecutions' = Append(taskExecutions, taskItem.task)
                /\ ret' = Ret("run", "", NoUri, "ok", <<taskItem.task>>, FALSE)
                /\ UNCHANGED inputBox
        /\ UNCHANGED <<fs, config, cachedTasks, scans, handlers, fsOps, cfgOps,
                       stored, storedQuiet, lastFull, dirty, extVars, events, taskItems,
                       raceVars>>

\* what the user answers: undefined when the box is cancelled
Cancelled == "<undefined>"

Answers == {Cancelled, "", "arg"}

\* the continuation of run when showInputBox resolves
InputBoxThen(i, str) ==
    LET b == inputBox[i]
        execution == [commandLine |-> IF str # "" THEN b.task.cmdLine \o <<" ", str>>
                                      ELSE b.task.cmdLine,
                      replaced |-> TRUE]
        task == [b.task EXCEPT !.execution = execution]
    IN  /\ inputBox' = RemoveAt(inputBox, i)
        /\ IF str # Cancelled
           THEN /\ taskExecutions' = Append(taskExecutions, task)
                /\ treeDataProvider' =
                      IF b.attached
                      THEN [treeDataProvider EXCEPT !.taskTree.tasks =
                               WithExecution(@, b.path, execution)]
                      ELSE treeDataProvider
                /\ ret' = Ret("answer", "", str, "ok", <<task>>, TRUE)
           ELSE /\ ret' = Ret("answer", "", str, "cancelled", <<b.task>>, TRUE)
                /\ UNCHANGED <<taskExecutions, treeDataProvider>>
        /\ UNCHANGED <<fs, config, cachedTasks, scans, handlers, fsOps, cfgOps,
                       stored, storedQuiet, lastFull, dirty, treeDataProvider2,
                       watchers, events, taskItems, raceVars>>

\* ------------------------------------------------------------------
\* The tree builder on the task lists the host can hand over
\* ------------------------------------------------------------------
TaskUniverse ==
    {VsTask("ant", "proj", <<"build">>, "", "build.xml", FALSE, FALSE, <<>>),
     VsTask("ant", "proj", <<"clean">>, "sub/", "build.xml", FALSE, FALSE, <<>>),
     VsTask("ant", "proj", <<"build">>, "app/", "build.xml", FALSE, FALSE, <<>>),
     VsTask("ant", "proj", <<"install">>, "", "build.xml", FALSE, FALSE, <<>>),
     VsTask("ant", GlobalScope, <<"build">>, "", "build.xml", FALSE, FALSE, <<>>),
     VsTask("bash", "proj", <<"run.sh">>, "", "run.sh", TRUE, FALSE,
            <<"", " ", ".", "/", "run.sh">>),
     VsTask("npm", "proj", <<"install">>, "", "", FALSE, FALSE, <<>>),
     VsTask("tsc", "lib", <<"watch", " - ", "src", "/", "tsconfig.json">>, "", "",
            FALSE, FALSE, <<>>)}

\* the lists of at most n different tasks of S, in every order
RECURSIVE SeqsUpTo(_, _)
SeqsUpTo(S, n) ==
    IF n = 0 THEN {<<>>}
    ELSE LET shorter == SeqsUpTo(S, n - 1)
         IN  shorter \cup UNION {{Append(q, x) : x \in S \ Range(q)} : q \in shorter}

InitTree ==
    /\ taskItems \in SeqsUpTo(TaskUniverse, MaxTasks)
    /\ \E ex \in {{}, {"lib/src"}}, sh \in BOOLEAN :
          config = [ConfigWith(TRUE, TRUE, FALSE) EXCEPT !.exclude = ex, !.enableBash = sh]
    /\ fs = [f \in {} |-> Absent]
    /\ treeDataProvider = NewProvider
    /\ treeDataProvider2 = NoProvider
    /\ watchers = [t \in WatcherTypes |-> NoWatcher]
    /\ events = <<>>
    /\ cachedTasks = [d \in Detectors |-> Undefined]
    /\ scans = <<>>
    /\ handlers = <<>>
    /\ ret = NoRet
    /\ fsOps = 0
    /\ cfgOps = 0
    /\ stored = [d \in Detectors |-> Undefined]
    /\ storedQuiet = [d \in Detectors |-> Undefined]
    /\ lastFull = [d \in Detectors |-> Undefined]
    /\ dirty = [d \in Detectors |-> FALSE]
    /\ inputBox = <<>>
    /\ taskExecutions = <<>>
    /\ landed = NotLanded
    /\ fetching = {}
    /\ treeFresh = FALSE

Elements == {NoElement, "TaskFolder", "TaskFile"}

NextTree ==
    \/ \E e \in Elements : GetChildren(e)
    \/ Refresh(False)

SpecTree == InitTree /\ [][NextTree]_vars

\* ------------------------------------------------------------------
\* The tree provider over the detectors' caches: browse and run
\* ------------------------------------------------------------------
InitRun ==
    /\ \E d \in Detectors : fs = [f \in FilesOf(d) |-> DefaultContent(f)]
    /\ config = ConfigWith(TRUE, TRUE, FALSE)
    /\ treeDataProvider = NewProvider
    /\ treeDataProvider2 = NoProvider
    /\ watchers = [t \in WatcherTypes |-> NoWatcher]
    /\ events = <<>>
    /\ cachedTasks = [d \in Detectors |-> Undefined]
    /\ scans = <<>>
    /\ handlers = <<>>
    /\ ret = NoRet
    /\ fsOps = 0
    /\ cfgOps = 0
    /\ stored = [d \in Detectors |-> Undefined]
    /\ storedQuiet = [d \in Detectors |-> Undefined]
    /\ lastFull = [d \in Detectors |-> Undefined]
    /\ dirty = [d \in Detectors |-> FALSE]
    /\ taskItems = <<>>
    /\ inputBox = <<>>
    /\ taskExecutions = <<>>
    /\ landed = NotLanded
    /\ fetching = {}
    /\ treeFresh = FALSE

\* type strings refresh is called with that name no detector of the model: the
\* view became visible, or a type the host provides the tasks of
TypeStrings == {"visible-event", "npm"}

NextRun ==
    \/ \E d \in Detectors : ProvideTasks(d)
    \/ \E i \in 1..Len(scans) : ScanStep(i)
    \/ \E e \in Elements : GetChildren(e)
    \/ \E invalidate \in {False, NoType} \cup TypeStrings : Refresh(invalidate)
    \/ \E path \in ItemPaths(treeDataProvider.taskTree.tasks) : Run(path)
    \/ \E i \in 1..Len(inputBox) : \E str \in Answers : InputBoxThen(i, str)

SpecRun == InitRun /\ [][NextRun]_vars

\* ------------------------------------------------------------------
\* The Ant reader on its own: one build file of any shape is read once
\* ------------------------------------------------------------------
MaxTargets == 2

AntTargetNames == {"build", "clean"}

NoNameTgt == [hasName |-> FALSE, name |-> ""]

\* the target elements of a project, in document order
AntTargetLists ==
    UNION {[1..n -> {Tgt(t) : t \in AntTargetNames} \cup {NoNameTgt}] : n \in 0..MaxTargets}

\* the default attribute: absent (or empty), a target's name, no target's name
AntDefaults == {"", "build", "deploy"}

AntInputs ==
    {AntUnparsable, AntXml(TRUE, "other", FALSE, "", FALSE, <<>>)}
    \cup {AntXml(TRUE, "project", FALSE, "", ts # <<>>, ts) : ts \in AntTargetLists}
    \cup {AntXml(TRUE, "project", TRUE, d, ts # <<>>, ts) :
             d \in AntDefaults, ts \in AntTargetLists}

AntInputFiles == {"build.xml", "sub/build.xml", "Build.xml", "ant/custom.xml"}

InitAnt ==
    /\ \E f \in AntInputFiles, c \in AntInputs : fs = [g \in {f} |-> c]
    /\ \E p \in {"", "/opt/tool"} :
          config = [ConfigWith(TRUE, FALSE, FALSE) EXCEPT !.pathToAnt = p]
    /\ treeDataProvider = NoProvider
    /\ treeDataProvider2 = NoProvider
    /\ watchers = [t \in WatcherTypes |-> NoWatcher]
    /\ events = <<>>
    /\ cachedTasks = [d \in Detectors |-> Undefined]
    /\ scans = <<>>
    /\ handlers = <<>>
    /\ ret = NoRet
    /\ fsOps = 0
    /\ cfgOps = 0
    /\ stored = [d \in Detectors |-> Undefined]
    /\ storedQuiet = [d \in Detectors |-> Undefined]
    /\ lastFull = [d \in Detectors |-> Undefined]
    /\ dirty = [d \in Detectors |-> FALSE]
    /\ taskItems = <<>>
    /\ inputBox = <<>>
    /\ taskExecutions = <<>>
    /\ landed = NotLanded
    /\ fetching = {}
    /\ treeFresh = FALSE

ReadAntfile(uri) ==
    /\ ret.op = "none"
    /\ LET r == readAntfile(config, fs, uri)
       IN  ret' = Ret("readAntfile", "ant", uri,
                      IF r.raised THEN "raised" ELSE "ok", r.tasks, r.raised)
    /\ UNCHANGED <<fs, config, cachedTasks, scans, handlers, fsOps, cfgOps,
                   stored, storedQuiet, lastFull, dirty, extVars, events,
                   treeVars, raceVars>>

NextAnt == \E uri \in DOMAIN fs : ReadAntfile(uri)

SpecAnt == InitAnt /\ [][NextAnt]_vars

\* ------------------------------------------------------------------
\* The Gradle reader on its own: one build file of a few lines is read once
\* ------------------------------------------------------------------
MaxLines == 2

\* the lines a build file of the model is made of
GradleLines ==
    {<<"t","a","s","k"," ","b","(">>,
     <<"T","a","s","k"," ","c"," ","{">>,
     <<"t","a","s","k"," ","b"," ","{","x","(">>,
     <<"t","a","s","k"," ","c">>,
     <<"{">>,
     <<" ","t","a","s","k"," ","b","{">>,
     <<"t","a","s","k"," ","(">>,
     <<"b","(">>,
     <<>>}

GradleLineLists == UNION {[1..n -> GradleLines] : n \in 0..MaxLines}

\* the text of a file: its lines, each but the last followed by a line
\* feed, the last one followed by a line feed or by the end of the file
RECURSIVE joinLines(_, _)
joinLines(lines, finalEol) ==
    IF lines = <<>> THEN <<>>
    ELSE IF Len(lines) = 1 THEN Head(lines) \o (IF finalEol THEN <<"\n">> ELSE <<>>)
    ELSE Head(lines) \o <<"\n">> \o joinLines(Tail(lines), finalEol)

GradleInputs ==
    {Text(joinLines(ls, e)) : ls \in GradleLineLists, e \in BOOLEAN}

InitGradle ==
    /\ \E f \in FilesOf("gradle"), c \in GradleInputs : fs = [g \in {f} |-> c]
    /\ \E p \in {"", "/opt/tool"} :
          config = [ConfigWith(TRUE, FALSE, FALSE) EXCEPT !.pathToGradle = p]
    /\ treeDataProvider = NoProvider
    /\ treeDataProvider2 = NoProvider
    /\ watchers = [t \in WatcherTypes |-> NoWatcher]
    /\ events = <<>>
    /\ cachedTasks = [d \in Detectors |-> Undefined]
    /\ scans = <<>>
    /\ handlers = <<>>
    /\ ret = NoRet
    /\ fsOps = 0
    /\ cfgOps = 0
    /\ stored = [d \in Detectors |-> Undefined]
    /\ storedQuiet = [d \in Detectors |-> Undefined]
    /\ lastFull = [d \in Detectors |-> Undefined]
    /\ dirty = [d \in Detectors |-> FALSE]
    /\ taskItems = <<>>
    /\ inputBox = <<>>
    /\ taskExecutions = <<>>
    /\ landed = NotLanded
    /\ fetching = {}
    /\ treeFresh = FALSE

ReadGradlefile(uri) ==
    /\ ret.op = "none"
    /\ LET r == readGradlefile(config, fs, uri)
       IN  ret' = Ret("readGradlefile", "gradle", uri,
                      IF r.raised THEN "raised" ELSE "ok", r.tasks, r.raised)
    /\ UNCHANGED <<fs, config, cachedTasks, scans, handlers, fsOps, cfgOps,
                   stored, storedQuiet, lastFull, dirty, extVars, events,
                   treeVars, raceVars>>

NextGradle == \E uri \in DOMAIN fs : ReadGradlefile(uri)

SpecGradle == InitGradle /\ [][NextGradle]_vars

\* ------------------------------------------------------------------
\* The detectors in a workspace whose exclude setting names the first file
\* of the detector, as a glob or as the literal path
\* ------------------------------------------------------------------
InitExcl ==
    /\ \E d \in Detectors :
          /\ fs = [f \in FilesOf(d) |-> DefaultContent(f)]
          /\ \E p \in ExcludePatterns(d) :
                config = [ConfigWith(TRUE, FALSE, FALSE) EXCEPT !.exclude = {p}]
    /\ treeDataProvider = NoProvider
    /\ treeDataProvider2 = NoProvider
    /\ watchers = [t \in WatcherTypes |-> NoWatcher]
    /\ events = <<>>
    /\ cachedTasks = [d \in Detectors |-> Undefined]
    /\ scans = <<>>
    /\ handlers = <<>>
    /\ ret = NoRet
    /\ fsOps = 0
    /\ cfgOps = 0
    /\ stored = [d \in Detectors |-> Undefined]
    /\ storedQuiet = [d \in Detectors |-> Undefined]
    /\ lastFull = [d \in Detectors |-> Undefined]
    /\ dirty = [d \in Detectors |-> FALSE]
    /\ taskItems = <<>>
    /\ inputBox = <<>>
    /\ taskExecutions = <<>>
    /\ landed = NotLanded
    /\ fetching = {}
    /\ treeFresh = FALSE

SpecExcl == InitExcl /\ [][Next]_vars

\* ------------------------------------------------------------------
\* The Ant and Gradle detectors with the arrivals of incremental updates
\* during a full scan recorded
\* ------------------------------------------------------------------
InitRace ==
    /\ \E d \in {"ant", "gradle"} : fs = [f \in FilesOf(d) |-> DefaultContent(f)]
    /\ config = ConfigWith(TRUE, FALSE, FALSE)
    /\ treeDataProvider = NoProvider
    /\ treeDataProvider2 = NoProvider
    /\ watchers = [t \in WatcherTypes |-> NoWatcher]
    /\ events = <<>>
    /\ cachedTasks = [d \in Detectors |-> Undefined]
    /\ scans = <<>>
    /\ handlers = <<>>
    /\ ret = NoRet
    /\ fsOps = 0
    /\ cfgOps = 0
    /\ stored = [d \in Detectors |-> Undefined]
    /\ storedQuiet = [d \in Detectors |-> Undefined]
    /\ lastFull = [d \in Detectors |-> Undefined]
    /\ dirty = [d \in Detectors |-> FALSE]
    /\ taskItems = <<>>
    /\ inputBox = <<>>
    /\ taskExecutions = <<>>
    /\ landed = [on |-> TRUE, seen |-> {}]
    /\ fetching = {}
    /\ treeFresh = FALSE

SpecRace == InitRace /\ [][Next]_vars

\* ------------------------------------------------------------------
\* The tree provider with getChildren suspended at tasks.fetchTasks():
\* the calls in flight, the refreshes between them, and the order in
\* which the host resolves them
\* ------------------------------------------------------------------
MaxFetching == 2

\* the task lists the host hands over from one call to the next
HostLists ==
    LET a == VsTask("ant", "proj", <<"build">>, "", "build.xml", FALSE, FALSE, <<>>)
        b == VsTask("npm", "proj", <<"install">>, "", "", FALSE, FALSE, <<>>)
    IN  {<<>>, <<a>>, <<b>>, <<a, b>>}

\* a plausible slip: a tree that was installed meanwhile is kept
assignTaskTreeIfUnset(taskTree, built) ==
    IF truthy(taskTree) THEN taskTree ELSE built

\* `this.taskTree = this.buildTaskTree(taskItems)` and the NoScripts
\* replacement after it: the field is assigned whatever it holds by then
assignTaskTree(taskTree, built) == built

\* getChildren() for the root up to `await tasks.fetchTasks()`: with a tree
\* installed it returns it at once, without one it asks the host for the
\* tasks and is suspended
GetChildrenBegin ==
    LET p == treeDataProvider
    IN  /\ p.exists
        /\ \/ /\ truthy(p.taskTree)
              /\ ret' = Ret("getChildren", "", NoElement, "ok", p.taskTree.tasks, FALSE)
              /\ UNCHANGED fetching
           \/ /\ ~truthy(p.taskTree)
              /\ Cardinality(fetching) < MaxFetching
              /\ [tasks |-> fetchTasks, before |-> FALSE] \notin fetching
              /\ fetching' = fetching \cup {[tasks |-> fetchTasks, before |-> FALSE]}
              /\ ret' = Ret("getChildren", "", NoElement, "pending", <<>>, FALSE)
        /\ UNCHANGED <<fs, config, cachedTasks, scans, handlers, fsOps, cfgOps,
                       stored, storedQuiet, lastFull, dirty, treeDataProvider,
                       treeDataProvider2, watchers, events, treeVars, landed,
                       treeFresh>>

\* a suspended getChildren() resumes with the list its fetchTasks() resolved
\* to; the host resolves the calls in flight in any order
GetChildrenEnd(r) ==
    LET p == treeDataProvider
        built == Arr(orNoScripts(buildTaskTree(config, r.tasks)))
        taskTree == assignTaskTree(p.taskTree, built)
    IN  /\ r \in fetching
        /\ fetching' = fetching \ {r}
        /\ treeDataProvider' = [p EXCEPT !.taskTree = taskTree]
        /\ treeFresh' = ~r.before
        /\ ret' = Ret("getChildrenResume", "", NoElement, "ok", taskTree.tasks,
                      r.before /\ treeFresh /\ truthy(p.taskTree))
        /\ UNCHANGED <<fs, config, cachedTasks, scans, handlers, fsOps, cfgOps,
                       stored, storedQuiet, lastFull, dirty, treeDataProvider2,
                       watchers, events, treeVars, landed>>

\* the tasks the host knows change between two calls of fetchTasks()
TasksChanged ==
    /\ \E l \in HostLists \ {taskItems} : taskItems' = l
    /\ ret' = NoRet
    /\ UNCHANGED <<fs, config, cachedTasks, scans, handlers, fsOps, cfgOps,
                   stored, storedQuiet, lastFull, dirty, treeDataProvider,
                   treeDataProvider2, watchers, events, inputBox, taskExecutions,
                   raceVars>>

InitRebuild ==
    /\ taskItems \in HostLists
    /\ config = ConfigWith(TRUE, TRUE, FALSE)
    /\ fs = [f \in {} |-> Absent]
    /\ treeDataProvider = NewProvider
    /\ treeDataProvider2 = NoProvider
    /\ watchers = [t \in WatcherTypes |-> NoWatcher]
    /\ events = <<>>
    /\ cachedTasks = [d \in Detectors |-> Undefined]
    /\ scans = <<>>
    /\ handlers = <<>>
    /\ ret = NoRet
    /\ fsOps = 0
    /\ cfgOps = 0
    /\ stored = [d \in Detectors |-> Undefined]
    /\ storedQuiet = [d \in Detectors |-> Undefined]
    /\ lastFull = [d \in Detectors |-> Undefined]
    /\ dirty = [d \in Detectors |-> FALSE]
    /\ inputBox = <<>>
    /\ taskExecutions = <<>>
    /\ landed = NotLanded
    /\ fetching = {}
    /\ treeFresh = FALSE

NextRebuild ==
    \/ GetChildrenBegin
    \/ \E r \in fetching : GetChildrenEnd(r)
    \/ TasksChanged
    \/ Refresh(False)

SpecRebuild == InitRebuild /\ [][NextRebuild]_vars

TypeOK ==
    /\ \A d \in Detectors : cachedTasks[d].defined \in BOOLEAN
    /\ Len(scans) + Len(handlers) <= PendingLimit

\* ------------------------------------------------------------------
\* Properties
\* ------------------------------------------------------------------
DescsOf(c, f) == SelectSeq(c.tasks, LAMBDA t : t.uri = f)

NotOf(c, f) == SelectSeq(c.tasks, LAMBDA t : t.uri # f)

\* C1 (as stated): once some provideTasks call has stored its list, every
\* later provideTasks call with no invalidation in between returns that very
\* list and starts no scan.
C1_SameListAsFirstStored ==
    (ret.op = "provide" /\ stored[ret.det].defined)
        => /\ ret.status = "ok"
           /\ ~ret.flag
           /\ ret.tasks = stored[ret.det].tasks

\* C1 (amended): once a provideTasks call has stored its list and no other
\* full scan of that detector is in flight, every later provideTasks call
\* with no invalidation step in between returns that list and starts no
\* scan, also when the list is empty.
C1_CachedUntilInvalidated ==
    (ret.op = "provide" /\ storedQuiet[ret.det].defined)
        => /\ ret.status = "ok"
           /\ ~ret.flag
           /\ ret.tasks = storedQuiet[ret.det].tasks

C1_Witness ==
    /\ ret.op = "provide"
    /\ ret.status = "ok"
    /\ storedQuiet[ret.det].defined
    /\ storedQuiet[ret.det].tasks = <<>>

\* C2: with descriptors of two existing, non-excluded files A and B cached by
\* the Ant or Gradle detector, an incremental update for A leaves B's
\* descriptors as they are; on a change it starts the read of A only and
\* appends descriptors of A only, on a delete it removes exactly A's.
C2_Pre(d, A, B) ==
    /\ A # B
    /\ cachedTasks[d].defined
    /\ DescsOf(cachedTasks[d], A) # <<>>
    /\ DescsOf(cachedTasks[d], B) # <<>>
    /\ pathExists(fs, B)
    /\ ~isExcluded(config, A)
    /\ ~isExcluded(config, B)

C2_IncrementalFrame ==
    [][\A d \in {"ant", "gradle"} : \A A \in FilesOf(d), B \in FilesOf(d) :
         /\ (ret'.op = "invalidate" /\ ret'.det = d /\ ret'.opt = A
               /\ C2_Pre(d, A, B) /\ pathExists(fs, A))
              => /\ DescsOf(cachedTasks'[d], B) = DescsOf(cachedTasks[d], B)
                 /\ DescsOf(cachedTasks'[d], A) = <<>>
                 /\ handlers' = Append(handlers, [det |-> d, opt |-> A])
         /\ (ret'.op = "invalidate" /\ ret'.det = d /\ ret'.opt = A
               /\ C2_Pre(d, A, B) /\ ~pathExists(fs, A))
              => /\ cachedTasks'[d] = Arr(NotOf(cachedTasks[d], A))
                 /\ DescsOf(cachedTasks'[d], B) = DescsOf(cachedTasks[d], B)
                 /\ handlers' = handlers
         /\ (ret'.op = "resume" /\ ret'.det = d /\ ret'.opt = A /\ A # B)
              => /\ DescsOf(cachedTasks'[d], B) = DescsOf(cachedTasks[d], B)
                 /\ ret'.status = "ok" =>
                       \A i \in 1..Len(ret'.tasks) : ret'.tasks[i].uri = A
    ]_vars

C2_Witness ==
    /\ ret.op = "resume"
    /\ ret.status = "ok"
    /\ ret.det \in {"ant", "gradle"}
    /\ ret.tasks # <<>>
    /\ \E B \in FilesOf(ret.det) :
          B # ret.opt /\ DescsOf(cachedTasks[ret.det], B) # <<>>

\* C3: when the incremental invalidation for a cached file F that is gone
\* from disk has completed, the cache holds no descriptor of F and none of
\* any file that does not exist.
C3_DeletedFileDropped ==
    [][\A d \in Detectors : \A F \in FilesOf(d) :
         (ret'.op = "invalidate" /\ ret'.det = d /\ ret'.opt = F
            /\ ret'.status = "ok"
            /\ DescsOf(cachedTasks[d], F) # <<>> /\ ~pathExists(fs, F))
           => \A i \in 1..Len(cachedTasks'[d].tasks) :
                 /\ cachedTasks'[d].tasks[i].uri # F
                 /\ pathExists(fs', cachedTasks'[d].tasks[i].uri)
    ]_vars

\* C4: once a change of the exclusion list, of an enable flag or of a path
\* override has been processed (here with a view registered, so that the
\* refresh does run), the caches of all three detectors are unpopulated.
C4_ConfigChangeClearsAll ==
    (ret.op = "config" /\ ret.flag /\ ret.n > 0 /\ ret.calls # <<>>)
        => \A d \in Detectors : ~cachedTasks[d].defined

\* C5: a file event delivered to a listener of an enabled watcher, with a
\* view to refresh, invalidates the cache of the detector the file belongs
\* to: its invalidate function is called, or its cache is left unpopulated.
C5_EventInvalidatesOwnType ==
    (ret.op = "fileEvent" /\ ret.n > 0 /\ ret.flag)
        => \/ ret.det \in Range(ret.calls)
           \/ ~cachedTasks[ret.det].defined

\* C6: a step of a full scan changes the detector's cache only when the scan
\* returns, and then to the complete list: it holds a descriptor of every
\* matched path the scan had not read before that step.
C6_AtomicSwap ==
    [][\A d \in Detectors :
         (scans' # scans /\ cachedTasks'[d] # cachedTasks[d])
            => /\ ret'.op = "scanDone"
               /\ ret'.status = "ok"
               /\ ret'.det = d
               /\ cachedTasks'[d] = Arr(ret'.tasks)
               /\ \E i \in ScansOf(d) :
                     /\ scans' = RemoveAt(scans, i)
                     /\ \A f \in Range(scans[i].paths) :
                           (~isExcluded(config, f) /\ f \notin scans[i].visitedFiles
                              /\ f # scans[i].reading)
                             => \E k \in 1..Len(ret'.tasks) : ret'.tasks[k].uri = f
    ]_vars

C6_Witness ==
    \E i \in 1..Len(scans) :
       /\ scans[i].phase = "read"
       /\ scans[i].allTasks # <<>>
       /\ cachedTasks[scans[i].det] # Arr(scans[i].allTasks)

\* C7: a cache mutation by an incremental update of a detector happens only
\* while no other incremental update of that detector stands between its
\* remove step and its append step.
C7_HandlersSerialized ==
    [][(ret'.op \in {"invalidate", "resume"} /\ ret'.opt # NoUri
          /\ cachedTasks'[ret'.det] # cachedTasks[ret'.det])
         => Cardinality(HandlersOf(ret'.det)) = (IF ret'.op = "resume" THEN 1 ELSE 0)
    ]_vars

\* C8: in every reachable state a cache holds at most one descriptor per
\* identity (type, source file, name).
C8_UniqueIdentity ==
    \A d \in Detectors :
       \A i \in 1..Len(cachedTasks[d].tasks), j \in 1..Len(cachedTasks[d].tasks) :
          (/\ cachedTasks[d].tasks[i].type = cachedTasks[d].tasks[j].type
           /\ cachedTasks[d].tasks[i].uri = cachedTasks[d].tasks[j].uri
           /\ cachedTasks[d].tasks[i].name = cachedTasks[d].tasks[j].name) => i = j

\* C9: a full scan of the Ant or Gradle detector never raises out of
\* provideTasks, whatever the matched files hold and whether or not they are
\* still there when read.
C9_ScanNeverRaises ==
    (ret.op = "scanDone" /\ ret.det \in {"ant", "gradle"}) => ret.status = "ok"

C11_UnknownFileTolerated ==
    [][\A d \in Detectors : \A F \in FilesOf(d) :
         (ret'.op = "invalidate" /\ ret'.det = d /\ ret'.opt = F
            /\ cachedTasks[d].defined /\ DescsOf(cachedTasks[d], F) = <<>>)
           => /\ ret'.status # "raised"
              /\ NotOf(cachedTasks'[d], F) = cachedTasks[d].tasks
              /\ ~pathExists(fs, F) => cachedTasks'[d].tasks = cachedTasks[d].tasks
              /\ (pathExists(fs, F) /\ ~isExcluded(config, F)) =>
                    \/ DescsOf(cachedTasks'[d], F) # <<>>
                    \/ handlers' = Append(handlers, [det |-> d, opt |-> F])
    ]_vars

\* C12: in the tree buildTaskTree returns, for every folder and every task
\* type: when the tasks placed in the folder make up two or more files of
\* that type, the folder has exactly one group node of the type, its children
\* are exactly those files and none of them is a direct child of the folder;
\* when they make up one file, that file is a direct child and the folder has
\* no group of the type.  Whatever the order and the mix of the tasks.
FilesIn(folder, T, group) ==
    {k \in 1..Len(folder.taskFiles) :
        folder.taskFiles[k].taskSource = T /\ folder.taskFiles[k].isGroup = group}

C12_Grouping ==
    LET tree == treeDataProvider.taskTree.tasks
        placed == placeTasks(config, <<>>, fetchTasks)
    IN  (treeDataProvider.taskTree.defined /\ tree # <<NoScripts>>)
           => /\ Len(tree) = Len(placed)
              /\ \A i \in 1..Len(placed) : \A T \in Range(SourceOrder) :
                    LET ids == {placed[i].taskFiles[k].id : k \in FilesIn(placed[i], T, FALSE)}
                        groups == FilesIn(tree[i], T, TRUE)
                        direct == FilesIn(tree[i], T, FALSE)
                    IN  /\ tree[i].label = placed[i].label
                        /\ Cardinality(ids) >= 2 =>
                              /\ Cardinality(groups) = 1
                              /\ direct = {}
                              /\ \A g \in groups :
                                    /\ Len(tree[i].taskFiles[g].scripts) = Cardinality(ids)
                                    /\ {tree[i].taskFiles[g].scripts[m].id :
                                           m \in 1..Len(tree[i].taskFiles[g].scripts)} = ids
                        /\ Cardinality(ids) = 1 =>
                              /\ groups = {}
                              /\ {tree[i].taskFiles[k].id : k \in direct} = ids
                              /\ Cardinality(direct) = 1
                        /\ Cardinality(ids) = 0 => (groups = {} /\ direct = {})

C12_Witness ==
    /\ treeDataProvider.taskTree.defined
    /\ \E i \in FolderElements(treeDataProvider.taskTree.tasks) :
          LET files == treeDataProvider.taskTree.tasks[i].taskFiles
          IN  /\ \E g \in 1..Len(files) : files[g].isGroup /\ Len(files[g].scripts) = 2
              /\ \E k \in 1..Len(files) : ~files[k].isGroup
    /\ Len(taskItems) = 3
    /\ taskItems[1].source = "ant"
    /\ taskItems[2].source = "bash"
    /\ taskItems[3].source = "ant"

\* C13: every folder of the tree buildTaskTree returns owns at least one
\* file node; a workspace folder whose tasks were all skipped or suppressed
\* is not in the tree.
C13_NoEmptyFolder ==
    treeDataProvider.taskTree.defined
       => \A i \in FolderElements(treeDataProvider.taskTree.tasks) :
             treeDataProvider.taskTree.tasks[i].taskFiles # <<>>

\* C14: when the fetched task list is empty, getChildren with no element
\* returns the placeholder node and nothing else.
C14_EmptyWorkspacePlaceholder ==
    (ret.op = "getChildren" /\ ret.opt = NoElement /\ fetchTasks = <<>>)
        => ret.tasks = <<NoScripts>>

C14_Witness ==
    /\ ret.op = "getChildren"
    /\ ret.opt = NoElement
    /\ taskItems = <<>>
    /\ treeDataProvider.taskTree = Arr(<<NoScripts>>)

\* C15: a task is kept out of the tree as an install task only if it is named
\* install and its type has an install helper (npm); every other task whose
\* type is enabled and whose scope is a workspace folder has an item in the
\* tree (a tsc task of an excluded directory apart, which step 2 suppresses).
InstallTypes == {"npm"}

TreeTasksOf(tree) == {ItemAt(tree, path).task : path \in ItemPaths(tree)}

C15_InstallOnlyWithHelper ==
    treeDataProvider.taskTree.defined
       => \A n \in 1..Len(fetchTasks) :
             LET t == fetchTasks[n]
             IN  (/\ configGet(config, settingName(t.source))
                  /\ isWorkspaceFolder(t.scope)
                  /\ ~(t.name = <<"install">> /\ t.source \in InstallTypes)
                  /\ ~(t.source = "tsc" /\ config.exclude # {}))
                    => t \in TreeTasksOf(treeDataProvider.taskTree.tasks)

\* C16: no step of the tree provider that builds or hands out the tree, runs
\* a task, resumes a run after its prompt or refreshes with false changes a
\* detector's cache or a descriptor in it.
C16_TreeNeverWritesCaches ==
    [][(\/ ret'.op \in {"getChildren", "run", "answer"}
        \/ (ret'.op = "refresh" /\ ret'.opt = False))
         => cachedTasks' = cachedTasks
    ]_vars

C16_Witness ==
    /\ ret.op = "answer"
    /\ ret.status = "ok"
    /\ cachedTasks["script"].defined
    /\ \E i \in 1..Len(cachedTasks["script"].tasks) :
          /\ cachedTasks["script"].tasks[i].requiresArgs
          /\ cachedTasks["script"].tasks[i].name = ret.tasks[1].name
    /\ ret.tasks[1].execution.replaced
    /\ truthy(treeDataProvider.taskTree)
    /\ ret.tasks[1] \in TreeTasksOf(treeDataProvider.taskTree.tasks)

\* C17: run on a task whose requiresArgs is true opens the prompt and
\* executes nothing; the task is executed only when the prompt is answered
\* and not at all when it is cancelled; run on any other task executes it at
\* once and opens no prompt.
C17_PromptBeforeExecute ==
    [][/\ (ret'.op = "run" /\ ret'.tasks[1].requiresArgs = TRUE)
           => /\ taskExecutions' = taskExecutions
              /\ Len(inputBox') = Len(inputBox) + 1
       /\ (ret'.op = "run" /\ ret'.tasks[1].requiresArgs # TRUE)
           => /\ taskExecutions' = Append(taskExecutions, ret'.tasks[1])
              /\ inputBox' = inputBox
       /\ (ret'.op = "answer" /\ ret'.opt = Cancelled)
           => taskExecutions' = taskExecutions
       /\ taskExecutions' # taskExecutions
           => /\ Len(taskExecutions') = Len(taskExecutions) + 1
              /\ taskExecutions'[Len(taskExecutions')].requiresArgs = TRUE
                    => /\ ret'.op = "answer"
                       /\ ret'.opt # Cancelled
                       /\ Len(inputBox') = Len(inputBox) - 1
    ]_vars

C17_Witness ==
    /\ ret.op = "answer"
    /\ ret.status = "ok"
    /\ taskExecutions # <<>>
    /\ taskExecutions[Len(taskExecutions)].requiresArgs = TRUE
    /\ taskExecutions[Len(taskExecutions)].execution.commandLine
          = taskExecutions[Len(taskExecutions)].cmdLine \o <<" ", "arg">>

\* the Ant file just read, and what makes it a valid project
AntRead == fs[ret.opt]

NamedTargets(c) == {i \in 1..Len(c.targets) : c.targets[i].hasName}

ValidAnt(c) ==
    /\ c.wellFormed
    /\ c.root = "project"
    /\ c.hasTargets
    /\ NamedTargets(c) = 1..Len(c.targets)
    /\ \A i, j \in 1..Len(c.targets) :
          c.targets[i].name = c.targets[j].name => i = j

\* C18: reading a valid Ant file with N distinctly named targets and no
\* default attribute yields exactly N descriptors, named as the targets,
\* each with the arguments [name] (stated for files named build.xml, the
\* files whose arguments are the target name alone).
C18_NoDefaultOnePerTarget ==
    (ret.op = "readAntfile" /\ ValidAnt(AntRead) /\ AntRead.default = ""
        /\ basename(ret.opt) = "build.xml")
      => /\ ~ret.flag
         /\ Len(ret.tasks) = Len(AntRead.targets)
         /\ \A i \in 1..Len(ret.tasks) :
               /\ ret.tasks[i].name = <<AntRead.targets[i].name>>
               /\ ret.tasks[i].args = <<AntRead.targets[i].name>>

\* C19: when the project declares default="X", the descriptor of target X is
\* named "X - Default" and its invocation passes the plain name X; every
\* other descriptor keeps the plain name of its target.
C19_DefaultSuffix ==
    (ret.op = "readAntfile" /\ ValidAnt(AntRead) /\ AntRead.hasAttrs
        /\ AntRead.default # "")
      => /\ ~ret.flag
         /\ Len(ret.tasks) = Len(AntRead.targets)
         /\ \A i \in 1..Len(ret.tasks) :
               LET n == AntRead.targets[i].name
               IN  /\ ret.tasks[i].script = n
                   /\ ret.tasks[i].args[1] = n
                   /\ ret.tasks[i].name =
                        IF n = AntRead.default THEN <<n, " - Default">> ELSE <<n>>

C19_Witness ==
    /\ ret.op = "readAntfile"
    /\ AntRead.hasAttrs
    /\ AntRead.default = "build"
    /\ Len(ret.tasks) = 2
    /\ ret.tasks[1].name = <<"clean">>
    /\ ret.tasks[2].name = <<"build", " - Default">>
    /\ ret.tasks[2].args = <<"build">>

\* C20, as the specification states it: the arguments are [targetName] for
\* a file named build.xml and ["-f", fileName, targetName] for any other.
C20_FileFlagFirst ==
    ret.op = "readAntfile"
      => \A i \in 1..Len(ret.tasks) :
            ret.tasks[i].args =
               IF basename(ret.opt) = "build.xml"
               THEN <<ret.tasks[i].script>>
               ELSE <<"-f", basename(ret.opt), ret.tasks[i].script>>

\* C20, amended: without the colour logger the arguments are [targetName]
\* for a file whose name is build.xml in any letter case, and
\* [targetName, "-f", fileName] for any other.
C20_FileFlagLast ==
    (ret.op = "readAntfile" /\ ~(win32 /\ config.enableAnsiconForAnt))
      => \A i \in 1..Len(ret.tasks) :
            ret.tasks[i].args =
               IF basename(ret.opt) \in {"build.xml", "Build.xml"}
               THEN <<ret.tasks[i].script>>
               ELSE <<ret.tasks[i].script, "-f", basename(ret.opt)>>

C20_Witness ==
    /\ ret.op = "readAntfile"
    /\ ret.opt = "ant/custom.xml"
    /\ Len(ret.tasks) = 2
    /\ ret.tasks[1].args = <<"build", "-f", "custom.xml">>
    /\ ret.tasks[2].args = <<"clean", "-f", "custom.xml">>

\* the lines of a text: what stands between two line feeds, before the
\* first and after the last; eol tells whether a line feed ends the line
RECURSIVE SplitLines(_, _)
SplitLines(chars, acc) ==
    IF chars = <<>>
    THEN IF acc = <<>> THEN <<>> ELSE <<[text |-> acc, eol |-> FALSE]>>
    ELSE IF Head(chars) = "\n"
    THEN <<[text |-> acc, eol |-> TRUE]>> \o SplitLines(Tail(chars), <<>>)
    ELSE SplitLines(Tail(chars), Append(acc, Head(chars)))

GradleRead == SplitLines(fs[ret.opt].chars, <<>>)

IsTaskLine(l) == startsWith(toLowerCase(trim(l)), TaskToken)

\* positions (from 1) in the trimmed line, after its first space, of the
\* opening delimiters
Delims(l) == {i \in 1..Len(trim(l)) : i > 5 /\ trim(l)[i] \in {"(", "{"}}

FirstDelim(l) == CHOOSE i \in Delims(l) : \A j \in Delims(l) : i <= j

\* the text between the first space and the first delimiter, trimmed
DeclaredName(l) == trim(SubSeq(trim(l), 6, FirstDelim(l) - 1))

Declares(l) == IsTaskLine(l) /\ Delims(l) # {} /\ DeclaredName(l) # <<>>

TaskNamed(n) ==
    \E i \in 1..Len(ret.tasks) : ret.tasks[i].name = n /\ ret.tasks[i].args = <<n>>

\* C21: a line that, trimmed, begins with `task ` in any letter case gives
\* a descriptor named by the trimmed text between the first space after
\* `task` and the next `(` or `{`, whichever comes first, with the
\* arguments [name] (stated for lines ended by a line feed).
C21_NameUpToFirstDelimiter ==
    ret.op = "readGradlefile"
      => \A k \in 1..Len(GradleRead) :
            (GradleRead[k].eol /\ Declares(GradleRead[k].text))
               => TaskNamed(DeclaredName(GradleRead[k].text))

\* C22: every line that, trimmed, begins with `task ` in any letter case
\* and has a `(` or `{` after a non-empty name gives a descriptor, the last
\* line of a file with no final line feed included.
C22_EveryLineScanned ==
    ret.op = "readGradlefile"
      => \A k \in 1..Len(GradleRead) :
            Declares(GradleRead[k].text)
               => \E i \in 1..Len(ret.tasks) :
                     startsWith(ret.tasks[i].name, DeclaredName(GradleRead[k].text))

\* C23: a `task <name>` line with neither `(` nor `{` on it gives no
\* descriptor for that name, also when the delimiter opens the next line.
C23_NoDelimiterNoTask ==
    ret.op = "readGradlefile"
      => \A k \in 1..Len(GradleRead) :
            LET l == GradleRead[k].text
                n == trim(SubSeq(trim(l), 6, Len(trim(l))))
            IN  (IsTaskLine(l) /\ Delims(l) = {}
                   /\ \A j \in 1..Len(GradleRead) :
                         Declares(GradleRead[j].text)
                            => DeclaredName(GradleRead[j].text) # n)
                  => \A i \in 1..Len(ret.tasks) : ret.tasks[i].name # n

C23_Witness ==
    /\ ret.op = "readGradlefile"
    /\ ret.status = "ok"
    /\ fs[ret.opt].chars = <<"t","a","s","k"," ","c","\n","{","\n">>
    /\ ret.tasks = <<>>

\* C24: a full scan of the Script detector gives exactly one descriptor per
\* matching file; a batch file's descriptor has requiresArgs true exactly
\* when its content holds a percent sign followed by a digit 1 to 9, and
\* the descriptor of any other script has requiresArgs false.
C24_OnePerScriptFile ==
    (ret.op = "scanDone" /\ ret.det = "script" /\ ret.status = "ok")
      => /\ \A i, j \in 1..Len(ret.tasks) :
               ret.tasks[i].uri = ret.tasks[j].uri => i = j
         /\ \A i \in 1..Len(ret.tasks) :
               LET f == ret.tasks[i].uri
               IN  ret.tasks[i].requiresArgs =
                      (/\ extname(f) = "bat"
                       /\ \E k \in 1..(Len(fs[f].chars) - 1) :
                             /\ fs[f].chars[k] = "%"
                             /\ fs[f].chars[k + 1] \in {"1","2","3","4","5","6","7","8","9"})
         /\ ret.flag
               => {ret.tasks[i].uri : i \in 1..Len(ret.tasks)}
                     = {f \in FilesOf("script") :
                           pathExists(fs, f) /\ ~isExcluded(config, f)}

C24_Witness ==
    /\ ret.op = "scanDone"
    /\ ret.det = "script"
    /\ ret.status = "ok"
    /\ ret.flag
    /\ Len(ret.tasks) = 2
    /\ \E i, j \in 1..2 :
          /\ ret.tasks[i].uri = "go.bat" /\ ret.tasks[i].requiresArgs
          /\ ret.tasks[j].uri = "run.sh" /\ ~ret.tasks[j].requiresArgs

\* C27: an Ant or Gradle incremental update that was suspended at its file
\* read resumes and completes without raising whenever the file can be read,
\* whatever a full invalidation or a completing scan did to the cache
\* meanwhile.
C27_ResumeNeverRaises ==
    (ret.op = "resume" /\ ret.det \in {"ant", "gradle"}
        /\ ~readTasks(ret.det, config, fs, ret.opt).raised)
      => ret.status # "raised"

\* C28: an incremental invalidation (with a file) of a detector whose cache
\* is not populated completes without raising and leaves the cache
\* unpopulated.
C28_UnpopulatedTolerated ==
    [][\A d \in Detectors :
         (ret'.op = "invalidate" /\ ret'.det = d /\ ret'.opt # NoUri
            /\ ~cachedTasks[d].defined)
           => /\ ret'.status # "raised"
              /\ ~cachedTasks'[d].defined
    ]_vars

\* C29: a change event on a batch file that is on disk, delivered while a
\* view is enabled, leaves the Script cache either invalidated or holding a
\* descriptor of the file whose requiresArgs agrees with the file's content,
\* so that the next tree build shows the current value.
C29_ChangeEventRereads ==
    (ret.op = "fileEvent" /\ ret.opt = "go.bat" /\ ret.flag
        /\ config.enableBatch /\ pathExists(fs, "go.bat")
        /\ cachedTasks["script"].defined)
      => \A i \in 1..Len(cachedTasks["script"].tasks) :
            cachedTasks["script"].tasks[i].uri = "go.bat"
               => cachedTasks["script"].tasks[i].requiresArgs
                     = requiresArgsTest(fs["go.bat"].chars)

\* C30: a file the exclude setting matches never has a descriptor in a
\* detector's cache, whether a full scan or an incremental update for the
\* file wrote the cache.
C30_ExcludedNeverCached ==
    \A d \in Detectors : \A f \in FilesOf(d) :
       (f \in DOMAIN fs /\ isExcluded(config, f)) => DescsOf(cachedTasks[d], f) = <<>>

\* C25: an incremental update that arrives while a full rebuild is in
\* flight and nothing is installed yet changes nothing and starts no read,
\* and the completing rebuild installs the list it built itself: so the
\* update can be dropped, the cache ending up with the file's descriptors
\* from before the event (the witness is such an end).
C25_UpdateDuringRebuildDropped ==
    [][/\ \A d \in {"ant", "gradle"} :
            (ret'.op = "invalidate" /\ ret'.det = d /\ ret'.opt # NoUri
               /\ ScansOf(d) # {} /\ ~cachedTasks[d].defined)
              => /\ ret'.status = "ok"
                 /\ cachedTasks' = cachedTasks
                 /\ handlers' = handlers
                 /\ scans' = scans
       /\ (ret'.op = "scanDone" /\ ret'.status = "ok")
              => cachedTasks'[ret'.det] = Arr(ret'.tasks)
    ]_vars

C25_Witness ==
    /\ ret.op = "scanDone"
    /\ ret.status = "ok"
    /\ scans = <<>>
    /\ handlers = <<>>
    /\ cachedTasks[ret.det] = Arr(ret.tasks)
    /\ \E e \in landed.seen :
          /\ e.det = ret.det
          /\ e.content # Absent
          /\ fs[e.uri] = e.content
          /\ ~readTasks(ret.det, config, fs, e.uri).raised
          /\ DescsOf(cachedTasks[ret.det], e.uri) # <<>>
          /\ DescsOf(cachedTasks[ret.det], e.uri)
                # readTasks(ret.det, config, fs, e.uri).tasks

\* C26: a getChildren that resumes installs the tree built from the list
\* its own fetchTasks resolved to, whatever tree is installed by then, and
\* an installed tree is what later calls return until a refresh drops it:
\* so a call begun before a refresh that finishes after one begun after it
\* leaves the older list's tree as the current one (the witness).
C26_LateRebuildReplacesNewer ==
    [][/\ ret'.op = "getChildrenResume"
            => \E r \in fetching :
                  /\ fetching' = fetching \ {r}
                  /\ treeDataProvider'.taskTree
                        = Arr(orNoScripts(buildTaskTree(config, r.tasks)))
       /\ (ret'.op = "getChildren" /\ ret'.status = "ok")
            => /\ treeDataProvider' = treeDataProvider
               /\ ret'.tasks = treeDataProvider.taskTree.tasks
    ]_vars

C26_Witness ==
    /\ ret.op = "getChildrenResume"
    /\ ret.flag
    /\ fetching = {}
    /\ ~treeFresh
    /\ treeDataProvider.taskTree.tasks = ret.tasks
    /\ treeDataProvider.taskTree # Arr(orNoScripts(buildTaskTree(config, fetchTasks)))

\* C31: with both views in effect one refreshTree call invalidates each
\* cache once: no invalidate function is called twice by it.
C31_InvalidateOnce ==
    (/\ ret.op \in {"config", "fileEvent"}
     /\ ret.n = 1
     /\ config.enableSideBar /\ treeDataProvider.exists
     /\ config.enableExplorerView /\ treeDataProvider2.exists)
       => \A i, j \in 1..Len(ret.calls) : ret.calls[i] = ret.calls[j] => i = j

\* C32: refresh(false) drops the tree and calls no invalidate function, so
\* every detector cache and every scan in flight is as before; and a
\* provideTasks on a populated cache, as the following tree build issues,
\* returns the cached list and starts no scan.
C32_RefreshFalseKeepsCaches ==
    [][/\ (ret'.op = "refresh" /\ ret'.opt = False)
            => /\ treeDataProvider'.taskTree = Undefined
               /\ ret'.calls = <<>>
               /\ cachedTasks' = cachedTasks
               /\ scans' = scans
       /\ (ret'.op = "provide" /\ truthy(cachedTasks[ret'.det]))
            => /\ scans' = scans
               /\ ret'.status = "ok"
               /\ ret'.tasks = cachedTasks[ret'.det].tasks
       /\ ret'.op = "getChildren" => scans' = scans /\ cachedTasks' = cachedTasks
    ]_vars

C32_Witness ==
    /\ ret.op = "refresh"
    /\ ret.opt = False
    /\ ~truthy(treeDataProvider.taskTree)
    /\ scans = <<>>
    /\ \E d \in Detectors : truthy(cachedTasks[d]) /\ cachedTasks[d].tasks # <<>>
    /\ \E i \in 1..Len(inputBox) : ~inputBox[i].attached

\* C33: a refresh that carries a type string leaves the cache of every
\* other type as it was; with 'visible-event' or a host-provided type that
\* is every detector cache.
C33_TypedRefreshOwnCacheOnly ==
    [][(ret'.op = "refresh" /\ ret'.opt \in TypeStrings)
          => cachedTasks' = cachedTasks
    ]_vars

\* C34: when an incremental update of the Ant or Gradle detector has
\* completed, the cache is unpopulated or holds a non-empty list.
C34_EmptyMeansUnpopulated ==
    (/\ ret.op \in {"invalidate", "resume"}
     /\ ret.det \in {"ant", "gradle"}
     /\ ret.opt # NoUri
     /\ ret.status = "ok")
       => (~truthy(cachedTasks[ret.det]) \/ cachedTasks[ret.det].tasks # <<>>)

C34_Witness ==
    /\ ret.op = "resume"
    /\ ret.det \in {"ant", "gradle"}
    /\ ret.status = "ok"
    /\ ret.tasks = <<>>
    /\ pathExists(fs, ret.opt)
    /\ ~truthy(cachedTasks[ret.det])

\* C35 as stated: when a full scan has raised, the detector's cache is
\* unpopulated.
C35_RaisedLeavesUnpopulated ==
    (ret.op = "scanDone" /\ ret.status = "raised") => ~truthy(cachedTasks[ret.det])

\* C35 amended: a full scan assigns nothing to the cache before it returns:
\* neither a step that carries the scan on nor the step in which it raises
\* changes any cache, so no partial list is stored; and a provideTasks that
\* finds the cache unpopulated starts a new full scan.
C35_RaisedScanAssignsNothing ==
    [][/\ (Len(scans') = Len(scans) /\ scans' # scans) => cachedTasks' = cachedTasks
       /\ (ret'.op = "scanDone" /\ ret'.status = "raised")
            => cachedTasks' = cachedTasks
       /\ (ret'.op = "provide" /\ ~truthy(cachedTasks[ret'.det]))
            => /\ ret'.status = "pending"
               /\ Len(scans') = Len(scans) + 1
               /\ scans'[Len(scans')] = NewScan(ret'.det)
    ]_vars

C35_Witness ==
    /\ ret.op = "scanDone"
    /\ ret.status = "raised"
    /\ ret.det \in {"ant", "gradle"}
    /\ ret.opt = FileList(ret.det)[2]
    /\ readTasks(ret.det, config, fs, FileList(ret.det)[1]).tasks # <<>>
    /\ ~truthy(cachedTasks[ret.det])

\* the descriptors buildTaskTree keeps: the type is enabled, the scope is a
\* workspace folder, the task is not an install task, and a tsc task is not
\* of an excluded directory
passesFilter(cfg, each) ==
    LET fromName == each.source = "tsc" /\ sepIndex(each.name) # 0
                       /\ ~hasTsconfigSep(each.name)
        relativePath ==
            IF fromName
            THEN dirname(SubSeq(each.name, sepIndex(each.name) + 1, Len(each.name)))
            ELSE each.path
    IN  /\ configGet(cfg, settingName(each.source))
        /\ isWorkspaceFolder(each.scope)
        /\ ~isInstallTask(each)
        /\ ~(fromName /\ isExcluded(cfg, joinPath(each.scope, relativePath)))

\* the TaskFiles of a folder of the tree with the node that owns each: the
\* folder itself or a group node
OwnedFiles(folder) ==
    {<<<<"folder", folder.label>>, folder.taskFiles[k].id>> :
        k \in {n \in 1..Len(folder.taskFiles) : ~folder.taskFiles[n].isGroup}}
    \cup UNION {{<<folder.taskFiles[k].id, folder.taskFiles[k].scripts[m].id>> :
                    m \in 1..Len(folder.taskFiles[k].scripts)} :
                k \in {n \in 1..Len(folder.taskFiles) : folder.taskFiles[n].isGroup}}

\* C36: in the built tree every descriptor that passes the filter is the
\* task of exactly one leaf and no other task has a leaf; every TaskFile
\* that was created has exactly one owner, its folder or one group node.
C36_OneLeafOneOwner ==
    LET tree == treeDataProvider.taskTree.tasks
        placed == placeTasks(config, <<>>, fetchTasks)
    IN  (treeDataProvider.taskTree.defined /\ tree # <<NoScripts>>)
           => /\ \A n \in 1..Len(fetchTasks) :
                    Cardinality({p \in ItemPaths(tree) :
                                    ItemAt(tree, p).task = fetchTasks[n]})
                       = (IF passesFilter(config, fetchTasks[n]) THEN 1 ELSE 0)
              /\ Len(tree) = Len(placed)
              /\ \A i \in 1..Len(placed) : \A k \in 1..Len(placed[i].taskFiles) :
                    Cardinality({o \in OwnedFiles(tree[i]) :
                                    o[2] = placed[i].taskFiles[k].id}) = 1

C36_Witness ==
    /\ treeDataProvider.taskTree.defined
    /\ Len(fetchTasks) = MaxTasks
    /\ \E n \in 1..Len(fetchTasks) : ~passesFilter(config, fetchTasks[n])
    /\ \E i \in FolderElements(treeDataProvider.taskTree.tasks) :
          LET files == treeDataProvider.taskTree.tasks[i].taskFiles
          IN  \E g \in 1..Len(files) : files[g].isGroup /\ Len(files[g].scripts) = 2

\* C37: on the tree that is installed, getParent of every child that
\* getChildren hands out for a node is that node, files gathered under a
\* group node included, and getParent of a top-level node is null.
C37_ParentOfChild ==
    LET tree == treeDataProvider.taskTree.tasks
    IN  treeDataProvider.taskTree.defined
           => \A i \in 1..Len(tree) :
                 /\ getParent(tree[i]) = NullRef
                 /\ "taskFiles" \in DOMAIN tree[i]
                      => \A k \in 1..Len(tree[i].taskFiles) :
                            LET file == tree[i].taskFiles[k]
                            IN  /\ getParent(file) = NodeRef(tree[i])
                                /\ \A m \in 1..Len(file.scripts) :
                                      LET c == file.scripts[m]
                                      IN  /\ getParent(c) = NodeRef(file)
                                          /\ "isGroup" \in DOMAIN c
                                               => \A j \in 1..Len(c.scripts) :
                                                     getParent(c.scripts[j]) = NodeRef(c)

\* the enable flag of the task type a file belongs to
EnableFlagOf(f) ==
    CASE f \in FilesOf("ant") -> "enableAnt"
      [] f \in FilesOf("gradle") -> "enableGradle"
      [] extname(f) = "sh" -> "enableBash"
      [] OTHER -> "enableBatch"

\* C38: a file event delivered while the type of its file is disabled calls
\* refreshTree not at all, and one delivered while the type is enabled calls
\* it exactly once (change events of script files apart, which have no
\* listener: C29).
C38_ListenersFollowEnable ==
    ret.op = "fileEvent"
       => /\ ~config[EnableFlagOf(ret.opt)] => ret.n = 0
          /\ (config[EnableFlagOf(ret.opt)] /\ ret.det # "script") => ret.n = 1

\* the states of the line loop of findTargets on a text, from its entry to
\* the state in which it ends, cut off after `fuel` iterations
RECURSIVE LoopTrail(_, _, _)
LoopTrail(contents, st, fuel) ==
    IF st.eol = -1 \/ fuel = 0 THEN <<st>>
    ELSE <<st>> \o LoopTrail(contents, findTargetsStep(contents, st), fuel - 1)

TrailOf(contents) ==
    LoopTrail(contents,
              [idx |-> 0, eol |-> indexOf(contents, "\n", 0), scripts |-> <<>>],
              Len(contents) + 1)

\* C39: on every file content the line loop of findTargets ends, after at
\* most one iteration per character: each iteration stands on a line feed
\* at or after the scan index and moves the index to just after it, and the
\* loop is left when no line feed remains.
C39_LineLoopTerminates ==
    \A f \in DOMAIN fs :
       pathExists(fs, f) /\ f \in FilesOf("gradle")
          => LET c == fs[f].chars
                 tr == TrailOf(c)
             IN  /\ tr[Len(tr)].eol = -1
                 /\ indexOf(c, "\n", tr[Len(tr)].idx) = -1
                 /\ \A i \in 1..(Len(tr) - 1) :
                       /\ tr[i].eol >= tr[i].idx
                       /\ c[tr[i].eol + 1] = "\n"
                       /\ tr[i + 1].idx = tr[i].eol + 1
                       /\ tr[i + 1].idx > tr[i].idx

C39_Witness ==
    /\ ret.op = "readGradlefile"
    /\ ret.status = "ok"
    /\ Len(TrailOf(fs[ret.opt].chars)) = MaxLines + 1
    /\ \E i \in 1..MaxLines :
          TrailOf(fs[ret.opt].chars)[i].eol = TrailOf(fs[ret.opt].chars)[i].idx
    /\ ret.tasks # <<>>
    /\ TrailOf(fs[ret.opt].chars)[MaxLines + 1].scripts
          = findTargets(fs, ret.opt).scripts

====
